---- MODULE Spec2Model ----
(***************************************************************************)
(* Triplet-Qwen: the triplet DSL codec of AgentA, the validation rules of  *)
(* AgentB and the extract / validate / revise loop of DualAgentSystem.     *)
(*                                                                         *)
(* A Python str is a sequence of one-character strings; None is the        *)
(* one-element sequence NoneVal, which no text can equal because its       *)
(* element is not a character.  A Python dict with string keys is a        *)
(* record; the 'mods' dict, whose keys come from the parsed text, is a     *)
(* sequence of <<key, value>> pairs in insertion order.                    *)
(***************************************************************************)
EXTENDS Integers, Sequences, FiniteSets, TLC

\* ------------------------------------------------------------------ text

NoneVal == <<"None">>

\* Python truthiness of an optional str: None and '' are falsy.
Truthy(x) == x # NoneVal /\ x # <<>>

\* The characters of the model's texts that re's \w rejects: the space, the ASCII
\* punctuation and the full stop '。'.  Every other character of a text is a letter, a
\* digit or a CJK character, which \w accepts; a CJK character is written as its pinyin
\* or its code point and is still one character of the text.
NonWordChars ==
    {" ", "{", "}", "(", ")", ",", "=", "\"", ";", ":", "?", "[", "]", ".", "-", "juhao"}

\* The characters re's \s and str.strip() treat as whitespace.
SpaceChars == {" "}

IsWord(c) == c \notin NonWordChars

IsSpace(c) == c \in SpaceChars

\* str.lower() on one character.
LowerChar(c) ==
    CASE c = "N" -> "n"
      [] c = "U" -> "u"
      [] c = "L" -> "l"
      [] OTHER -> c

\* str.lower()
Lower(s) == [i \in 1..Len(s) |-> LowerChar(s[i])]

\* The least element of a non-empty set of integers.
MinOf(S) == CHOOSE x \in S : \A y \in S : x <= y

\* s.find(c, from) with 1-based positions: the first position >= from holding c, 0 if none.
FirstIndex(s, c, from) ==
    LET hits == {i \in from..Len(s) : s[i] = c}
    IN  IF hits = {} THEN 0 ELSE MinOf(hits)

\* str.strip()
Strip(s) ==
    LET keep == {i \in 1..Len(s) : ~IsSpace(s[i])}
    IN  IF keep = {} THEN <<>>
        ELSE SubSeq(s, MinOf(keep), CHOOSE x \in keep : \A y \in keep : y <= x)

\* needle in hay (Python's substring test on str).
Contains(hay, needle) ==
    \E i \in 0..(Len(hay) - Len(needle)) : SubSeq(hay, i + 1, i + Len(needle)) = needle

\* The last position of the maximal run of \w characters that starts at p.
RECURSIVE WordRunEnd(_, _)
WordRunEnd(s, p) ==
    IF p < Len(s) /\ IsWord(s[p + 1]) THEN WordRunEnd(s, p + 1) ELSE p

\* sep.join(parts)
RECURSIVE Join(_, _)
Join(sep, parts) ==
    IF parts = <<>> THEN <<>>
    ELSE IF Len(parts) = 1 THEN parts[1]
    ELSE parts[1] \o sep \o Join(sep, Tail(parts))

\* ------------------------------------------------------------------ dicts

\* dict.get(key, default) on a dict with string keys.
Get(d, key, default) == IF key \in DOMAIN d THEN d[key] ELSE default

\* mods[key] = value: an existing key keeps its place, a new key goes last.
ModsSet(mods, key, value) ==
    IF \E i \in 1..Len(mods) : mods[i][1] = key
    THEN [i \in 1..Len(mods) |-> IF mods[i][1] = key THEN <<key, value>> ELSE mods[i]]
    ELSE Append(mods, <<key, value>>)

\* key in mods
ModsHas(mods, key) == \E i \in 1..Len(mods) : mods[i][1] = key

\* mods[key], for a key that is present.
ModsGet(mods, key) == mods[CHOOSE i \in 1..Len(mods) : mods[i][1] = key][2]

\* ------------------------------------------------------------------ AgentA: the codec

\* re.findall(r'(\w+)="([^"]*)"', mods_str), folded into the dict as the loop does.
RECURSIVE FindModPairs(_, _, _)
FindModPairs(str, p, acc) ==
    IF p > Len(str) THEN acc
    ELSE IF ~IsWord(str[p]) THEN FindModPairs(str, p + 1, acc)
    ELSE LET q == WordRunEnd(str, p)
             opens == q + 2 <= Len(str) /\ str[q + 1] = "=" /\ str[q + 2] = "\""
             e == IF opens THEN FirstIndex(str, "\"", q + 3) ELSE 0
         IN  IF e = 0 THEN FindModPairs(str, p + 1, acc)
             ELSE FindModPairs(str, e + 1,
                               ModsSet(acc, SubSeq(str, p, q), SubSeq(str, q + 3, e - 1)))

\* re.search(r'\{([^}]*)\}', response) and the pairs of its group.
ParseMods(response) ==
    LET i == FirstIndex(response, "{", 1)
        j == IF i = 0 THEN 0 ELSE FirstIndex(response, "}", i + 1)
    IN  IF j = 0 THEN <<>> ELSE FindModPairs(SubSeq(response, i + 1, j - 1), 1, <<>>)

\* r'(\w+)\(([^,]*),\s*([^)]*)\)' tried at position p: <<q, c, r>>, the ends of the
\* predicate, of the subject group (the comma) and of the object group (the
\* parenthesis), or <<>> when the pattern does not match at p.
PredMatchAt(response, p) ==
    IF ~IsWord(response[p]) THEN <<>>
    ELSE LET q == WordRunEnd(response, p)
             paren == q + 1 <= Len(response) /\ response[q + 1] = "("
             c == IF paren THEN FirstIndex(response, ",", q + 2) ELSE 0
             r == IF c = 0 THEN 0 ELSE FirstIndex(response, ")", c + 1)
         IN  IF r = 0 THEN <<>> ELSE <<q, c, r>>

\* A matched argument that keeps the word 'null' as its text.
CleanArgKeepNull(raw) ==
    LET s == Strip(raw)
    IN  IF s # <<>> THEN s ELSE NoneVal

\* A matched argument: stripped, and None when empty or 'null' in any case.
CleanArg(raw) ==
    LET s == Strip(raw)
    IN  IF s # <<>> /\ Lower(s) # <<"n", "u", "l", "l">> THEN s ELSE NoneVal

\* A parser that names the predicate 'Unknown' when the call pattern does not match.
ParseTripletResponseUnknown(response, sentence) ==
    LET starts == {p \in 1..Len(response) : PredMatchAt(response, p) # <<>>}
        p == IF starts = {} THEN 0 ELSE MinOf(starts)
        m == IF p = 0 THEN <<>> ELSE PredMatchAt(response, p)
    IN  [sentence  |-> sentence,
         mods      |-> ParseMods(response),
         predicate |-> IF p = 0 THEN <<"U", "n", "k", "n", "o", "w", "n">>
                       ELSE SubSeq(response, p, m[1]),
         subject   |-> IF p = 0 THEN NoneVal ELSE CleanArg(SubSeq(response, m[1] + 2, m[2] - 1)),
         object    |-> IF p = 0 THEN NoneVal ELSE CleanArg(SubSeq(response, m[2] + 1, m[3] - 1)),
         raw       |-> Strip(response)]

\* AgentA._parse_triplet_response
ParseTripletResponse(response, sentence) ==
    LET starts == {p \in 1..Len(response) : PredMatchAt(response, p) # <<>>}
        p == IF starts = {} THEN 0 ELSE MinOf(starts)
        m == IF p = 0 THEN <<>> ELSE PredMatchAt(response, p)
    IN  [sentence  |-> sentence,
         mods      |-> ParseMods(response),
         predicate |-> IF p = 0 THEN NoneVal ELSE SubSeq(response, p, m[1]),
         subject   |-> IF p = 0 THEN NoneVal ELSE CleanArg(SubSeq(response, m[1] + 2, m[2] - 1)),
         object    |-> IF p = 0 THEN NoneVal ELSE CleanArg(SubSeq(response, m[2] + 1, m[3] - 1)),
         raw       |-> Strip(response)]

\* x or default, for an optional str.
OrElse(x, default) == IF Truthy(x) THEN x ELSE default

\* The mods of a dict as _format_triplet reads them: triplet.get('mods', {}).
ModsOf(triplet) == Get(triplet, "mods", <<>>)

\* _format_triplet writing the modifiers as key=value, without the quotes.
FormatTripletUnquoted(triplet) ==
    LET mods == ModsOf(triplet)
        mods_str == Join(<<",", " ">>,
                         [i \in 1..Len(mods) |-> mods[i][1] \o <<"=">> \o mods[i][2]])
        subject == OrElse(Get(triplet, "subject", NoneVal), <<"n", "u", "l", "l">>)
        obj == OrElse(Get(triplet, "object", NoneVal), <<"n", "u", "l", "l">>)
        predicate == OrElse(Get(triplet, "predicate", NoneVal),
                            <<"U", "n", "k", "n", "o", "w", "n">>)
        call == predicate \o <<"(">> \o subject \o <<",", " ">> \o obj \o <<")">>
    IN  IF mods_str # <<>> THEN <<"{">> \o mods_str \o <<"}", " ">> \o call ELSE call

\* AgentA._format_triplet
FormatTriplet(triplet) ==
    LET mods == ModsOf(triplet)
        mods_str == Join(<<",", " ">>,
                         [i \in 1..Len(mods) |-> mods[i][1] \o <<"=", "\"">> \o mods[i][2] \o <<"\"">>])
        subject == OrElse(Get(triplet, "subject", NoneVal), <<"n", "u", "l", "l">>)
        obj == OrElse(Get(triplet, "object", NoneVal), <<"n", "u", "l", "l">>)
        predicate == OrElse(Get(triplet, "predicate", NoneVal),
                            <<"U", "n", "k", "n", "o", "w", "n">>)
        call == predicate \o <<"(">> \o subject \o <<",", " ">> \o obj \o <<")">>
    IN  IF mods_str # <<>> THEN <<"{">> \o mods_str \o <<"}", " ">> \o call ELSE call

\* ------------------------------------------------------------------ AgentB: the checks

\* The outcome of a call that raised instead of returning.
Raised == [raised |-> "AttributeError"]

IsRaised(x) == "raised" \in DOMAIN x

\* The issues a list of <<condition, message>> rules appends, in order.
RECURSIVE IssuesOf(_)
IssuesOf(rules) ==
    IF rules = <<>> THEN <<>>
    ELSE (IF rules[1][1] THEN <<rules[1][2]>> ELSE <<>>) \o IssuesOf(Tail(rules))

\* {'valid': len(issues) == 0, 'issues': issues}
CheckResult(issues) == [valid |-> issues = <<>>, issues |-> issues]

\* isinstance(mods, dict): a dict is a sequence of <<key, value>> pairs; a list is a
\* sequence of one-element tuples, one for each of its items.
IsMapping(mods) == \A i \in 1..Len(mods) : Len(mods[i]) = 2

\* AgentB._check_structure
CheckStructure(triplet) ==
    CheckResult(IssuesOf(<<
        <<~Truthy(Get(triplet, "predicate", NoneVal)), "missing_predicate">>,
        <<~Truthy(Get(triplet, "subject", NoneVal)), "missing_subject">>,
        <<~IsMapping(Get(triplet, "mods", <<>>)), "mods_format">> >>))

\* The cues that let an 'attribute' modifier stand: '在', '从', '给', '对'.
AttributeCues == {"zai", "cong", "gei", "dui"}

KeyAttribute == <<"a", "t", "t", "r", "i", "b", "u", "t", "e">>

KeyLocation == <<"l", "o", "c", "a", "t", "i", "o", "n">>

KeyTime == <<"t", "i", "m", "e">>

\* The least length of a 'location' value that is not flagged.
MinLocationLen == 2

\* An argument-integrity check that flags every non-empty 'attribute', cue or no cue.
CheckArgumentIntegrityNoCue(sentence, triplet) ==
    LET mods == ModsOf(triplet)
        bad_attribute(i) ==
            /\ mods[i][1] = KeyAttribute
            /\ mods[i][2] # <<>>
        short_location ==
            /\ ModsHas(mods, KeyLocation)
            /\ Len(ModsGet(mods, KeyLocation)) < MinLocationLen
    IN  IF ~IsMapping(mods) THEN Raised
        ELSE CheckResult(
                 IssuesOf([i \in 1..Len(mods) |->
                              <<bad_attribute(i), "attribute_belongs_in_argument">>])
                 \o IssuesOf(<< <<short_location, "location_too_short">> >>))

\* AgentB._check_argument_integrity.  mods.items() raises AttributeError when mods is
\* not a dict.
CheckArgumentIntegrity(sentence, triplet) ==
    LET mods == ModsOf(triplet)
        bad_attribute(i) ==
            /\ mods[i][1] = KeyAttribute
            /\ mods[i][2] # <<>>
            /\ ~\E x \in AttributeCues : Contains(mods[i][2], <<x>>)
        short_location ==
            /\ ModsHas(mods, KeyLocation)
            /\ Len(ModsGet(mods, KeyLocation)) < MinLocationLen
    IN  IF ~IsMapping(mods) THEN Raised
        ELSE CheckResult(
                 IssuesOf([i \in 1..Len(mods) |->
                              <<bad_attribute(i), "attribute_belongs_in_argument">>])
                 \o IssuesOf(<< <<short_location, "location_too_short">> >>))

\* time_keywords of _check_semantic_completeness.
TimeKeywords ==
    { <<"mei", "tian">>, <<"mei", "yue">>, <<"mei", "nian">>, <<"zao", "shang">>,
      <<"wan", "shang">>, <<"zuo", "tian">>, <<"jin", "tian">>, <<"ming", "tian">>,
      <<"jin", "nian">>, <<"qu", "nian">>,
      <<"e", "v", "e", "r", "y">>, <<"d", "a", "i", "l", "y">>,
      <<"m", "o", "r", "n", "i", "n", "g">>, <<"e", "v", "e", "n", "i", "n", "g">>,
      <<"y", "e", "s", "t", "e", "r", "d", "a", "y">>, <<"t", "o", "d", "a", "y">>,
      <<"t", "o", "m", "o", "r", "r", "o", "w">> }

\* location_keywords of _check_semantic_completeness.
LocationKeywords ==
    { <<"zai">>, <<"di">>, <<"chu">>, <<"li">>, <<"shang">>,
      <<"a", "t">>, <<"i", "n">>, <<"o", "n">>, <<"n", "e", "a", "r">> }

\* x.lower() if x else '', for the value triplet.get(key) of an optional str.
LowerOrEmpty(x) == IF Truthy(x) THEN Lower(x) ELSE <<>>

\* AgentB._check_semantic_completeness.  triplet.get('predicate', '').lower() raises
\* AttributeError when the key is present and holds None.
CheckSemanticCompleteness(sentence, triplet) ==
    IF Get(triplet, "predicate", <<>>) = NoneVal THEN Raised
    ELSE LET subject == LowerOrEmpty(Get(triplet, "subject", NoneVal))
             obj == LowerOrEmpty(Get(triplet, "object", NoneVal))
             sentence_lower == Lower(sentence)
             mods == ModsOf(triplet)
             has_time_keyword == \E k \in TimeKeywords : Contains(sentence, k)
             has_location_keyword == \E k \in LocationKeywords : Contains(sentence, k)
         IN  CheckResult(IssuesOf(<<
                 <<subject # <<>> /\ ~Contains(sentence_lower, subject), "subject_not_in_sentence">>,
                 <<obj # <<>> /\ ~Contains(sentence_lower, obj), "object_not_in_sentence">>,
                 <<has_time_keyword /\ ~ModsHas(mods, KeyTime), "missing_time">>,
                 <<has_location_keyword /\ ~ModsHas(mods, KeyLocation), "missing_location">> >>))

\* AgentB._reconstruct_sentence
ReconstructSentence(triplet) ==
    LET mods == ModsOf(triplet)
        part(x) == IF Truthy(x) THEN <<x>> ELSE <<>>
        parts == [i \in 1..Len(mods) |-> mods[i][2]]
                 \o part(Get(triplet, "subject", NoneVal))
                 \o part(Get(triplet, "predicate", NoneVal))
                 \o part(Get(triplet, "object", NoneVal))
    IN  IF parts # <<>> THEN Join(<<>>, parts) ELSE <<"[", "?", "]">>

\* The characters whose presence in the sentence means modifiers were dropped: '在', '每', '很'.
ModifierCues == {"zai", "mei", "hen"}

\* A recoverability check without the modifier-cue rule.
CheckRecoverabilityNoCues(sentence, triplet) ==
    LET predicate == Get(triplet, "predicate", <<>>)
        issues == IssuesOf(<<
            <<~Truthy(predicate) \/ ~Contains(sentence, predicate), "predicate_not_recoverable">> >>)
    IN  IF ~IsMapping(ModsOf(triplet)) THEN Raised
        ELSE [valid |-> issues = <<>>, issues |-> issues,
              recovered_sentence |-> ReconstructSentence(triplet)]

\* AgentB._check_recoverability.  _reconstruct_sentence calls mods.items() on a
\* non-empty mods and raises AttributeError when it is not a dict.
CheckRecoverability(sentence, triplet) ==
    LET predicate == Get(triplet, "predicate", <<>>)
        issues == IssuesOf(<<
            <<~Truthy(predicate) \/ ~Contains(sentence, predicate), "predicate_not_recoverable">>,
            <<Len(ModsOf(triplet)) = 0 /\ \E c \in ModifierCues : Contains(sentence, <<c>>),
              "modifiers_lost">> >>)
    IN  IF ~IsMapping(ModsOf(triplet)) THEN Raised
        ELSE [valid |-> issues = <<>>, issues |-> issues,
              recovered_sentence |-> ReconstructSentence(triplet)]

\* The role names of ValidationRuleLibrary.keyword_patterns, as the keys mods is read by.
RoleKey ==
    [time |-> KeyTime,
     location |-> KeyLocation,
     manner |-> <<"m", "a", "n", "n", "e", "r">>,
     cause |-> <<"c", "a", "u", "s", "e">>,
     purpose |-> <<"p", "u", "r", "p", "o", "s", "e">>,
     tool |-> <<"t", "o", "o", "l">>,
     direction |-> <<"d", "i", "r", "e", "c", "t", "i", "o", "n">>,
     negation |-> <<"n", "e", "g", "a", "t", "i", "o", "n">>,
     modal |-> <<"m", "o", "d", "a", "l">>,
     frequency |-> <<"f", "r", "e", "q", "u", "e", "n", "c", "y">>,
     degree |-> <<"d", "e", "g", "r", "e", "e">>,
     attribute |-> KeyAttribute]

\* ValidationRuleLibrary.keyword_patterns: the trigger keywords of each role.  A character
\* that occurs in none of the texts above is written as its code point.
KeywordPatterns ==
    [time |->
        {<<"mei">>, <<"mei", "tian">>, <<"mei", "yue">>, <<"mei", "nian">>, <<"zao", "shang">>,
         <<"wan", "shang">>, <<"zuo", "tian">>, <<"jin", "tian">>, <<"ming", "tian">>,
         <<"jin", "nian">>, <<"qu", "nian">>, <<"ming", "nian">>, <<"shang", "u5348">>,
         <<"u4e0b", "u5348">>, <<"u591c", "u95f4">>, <<"u4e2d", "u5348">>,
         <<"u65f6", "u523b">>, <<"u70b9", "u949f">>, <<"u5468">>, <<"yue">>, <<"nian">>,
         <<"u65e5">>, <<"xiao", "u65f6">>, <<"u5206", "u949f">>, <<"u79d2">>,
         <<"yi", "u76f4">>, <<"u6301", "u7eed">>, <<"u8fc7", "u7a0b">>},
     location |->
        {<<"zai">>, <<"di">>, <<"chu">>, <<"li">>, <<"shang">>, <<"u4e0b">>, <<"u524d">>,
         <<"u540e">>, <<"u5de6">>, <<"u53f3">>, <<"u4e2d">>, <<"u5317">>, <<"u5357">>,
         <<"u4e1c">>, <<"u897f">>, <<"u5185">>, <<"u5916">>, <<"u95f4">>, <<"u8fb9">>,
         <<"u65c1">>, <<"u5934">>, <<"u5c3e">>, <<"yuan3", "fang">>, <<"shan", "shang">>,
         <<"gong", "yuan">>, <<"u5b66", "u6821">>, <<"u533b", "u9662">>,
         <<"u529e", "gong", "u5ba4">>, <<"u5bb6">>, <<"u95e8", "u53e3">>},
     manner |->
        {<<"zi3", "xi">>, <<"kuai", "u901f">>, <<"u6162", "u6162">>, <<"u8f7b", "u8f7b">>,
         <<"da", "u58f0">>, <<"xiao", "u58f0">>, <<"u597d", "u597d">>, <<"u5145", "u5206">>,
         <<"u5b8c", "u5168">>, <<"u5f7b", "u5e95">>, <<"u6df1", "u5165">>,
         <<"u6d45", "u663e">>, <<"u53cb", "u597d">>, <<"u654c", "u610f">>,
         <<"u8c28", "u614e">>, <<"da", "u80c6">>, <<"di">>, <<"fang", "u5f0f">>,
         <<"u6001", "u5ea6">>, <<"u98ce", "u683c">>},
     cause |->
        {<<"u7531", "u4e8e">>, <<"u56e0", "u4e3a">>, <<"u53d7">>, <<"u5f71", "u54cd">>,
         <<"u5bfc", "u81f4">>, <<"u9020", "u6210">>, <<"u8d77", "u56e0">>,
         <<"u6839", "u6e90">>, <<"u539f", "u56e0">>, <<"u662f", "u56e0", "u4e3a">>,
         <<"u6240", "u4ee5">>, <<"u56e0", "u6b64">>, <<"u7ed3", "u679c">>},
     purpose |->
        {<<"u4e3a", "le">>, <<"u4ee5", "u4fbf">>, <<"u76ee", "de">>, <<"u60f3", "u8981">>,
         <<"u6253", "u7b97">>, <<"u8ba1", "u5212">>, <<"u76ee", "u6807">>, <<"u4e3a">>,
         <<"u4e3a", "le", "u80fd">>, <<"u4e3a", "le", "u80fd", "u591f">>, <<"u5e0c", "u671b">>,
         <<"u4f01", "u56fe">>},
     tool |->
        {<<"yong">>, <<"u901a", "u8fc7">>, <<"u501f", "u52a9">>, <<"u5229", "yong">>,
         <<"u51ed">>, <<"u9760">>, <<"u5de5", "u5177">>, <<"u624b", "u6bb5">>,
         <<"u529e", "u6cd5">>, <<"fang", "u6cd5">>, <<"u6e20", "u9053">>, <<"u9014", "u5f84">>,
         <<"u4ecb", "u8d28">>, <<"u5a92", "u4ecb">>},
     direction |->
        {<<"u5411">>, <<"u671d">>, <<"u5f80">>, <<"qu">>, <<"dao">>, <<"u79bb">>, <<"cong">>,
         <<"u6765", "u81ea">>, <<"u4e1c">>, <<"u897f">>, <<"u5357">>, <<"u5317">>, <<"u5de6">>,
         <<"u53f3">>, <<"shang">>, <<"u4e0b">>, <<"u524d">>, <<"u540e">>},
     negation |->
        {<<"u4e0d">>, <<"u6ca1", "u6709">>, <<"u65e0", "u6cd5">>, <<"u4e0d", "u80fd">>,
         <<"u4e0d", "u4f1a">>, <<"u4e0d", "u662f">>, <<"u6ca1">>, <<"u65e0">>, <<"u975e">>,
         <<"u522b">>, <<"u83ab">>, <<"u52ff">>, <<"u7edd">>, <<"u6c38", "yuan3", "u4e0d">>},
     modal |->
        {<<"ke", "u80fd">>, <<"u5e94", "u8be5">>, <<"u5fc5", "u987b">>, <<"ke", "u4ee5">>,
         <<"u80fd">>, <<"u8981">>, <<"u4f1a">>, <<"u60f3">>, <<"u5f97">>, <<"u7740">>,
         <<"le">>, <<"u8fc7">>, <<"u5e94", "u5f53">>, <<"u5fc5", "u7136">>,
         <<"u52bf", "u5fc5">>},
     frequency |->
        {<<"mei">>, <<"u7ecf", "u5e38">>, <<"u6709", "u65f6">>, <<"cong", "u4e0d">>,
         <<"hen", "u5c11">>, <<"u603b", "u662f">>, <<"u9891", "u7e41">>, <<"u5e38", "u5e38">>,
         <<"u6709", "de", "u65f6", "u5019">>, <<"u95f4", "u6216">>, <<"u5c61", "u6b21">>,
         <<"u591a", "u6b21">>, <<"u51e0", "u6b21">>},
     degree |->
        {<<"hen">>, <<"u975e", "u5e38">>, <<"u6781", "u5176">>, <<"u7279", "u522b">>,
         <<"u592a">>, <<"u7279">>, <<"u76f8", "u5f53">>, <<"u6bd4", "u8f83">>, <<"u7565">>,
         <<"u7a0d">>, <<"u5fae">>, <<"u6709", "u70b9">>, <<"yi", "u70b9">>,
         <<"u5b8c", "u5168">>, <<"u7edd", "dui">>, <<"u5f7b", "u5e95">>},
     attribute |->
        {<<"gao", "da">>, <<"u6f02", "u4eae">>, <<"u65b0", "de">>, <<"u65e7", "de">>,
         <<"u7ea2", "u8272">>, <<"u84dd", "u8272">>, <<"da", "de">>, <<"xiao", "de">>,
         <<"u7f8e", "u4e3d">>, <<"u4e11", "u964b">>, <<"u806a", "ming">>, <<"u611a", "u8822">>,
         <<"kuai", "u901f">>, <<"u7f13", "u6162">>, <<"u771f", "de">>, <<"u5047", "de">>}]

\* ValidationRuleLibrary.get_expected_modifiers: the roles with a keyword in the sentence.
ExpectedModifiers(sentence) ==
    {role \in DOMAIN KeywordPatterns :
        \E keyword \in KeywordPatterns[role] : Contains(sentence, keyword)}

\* s.rfind(c) with 1-based positions: the last position holding c, 0 if none.
LastIndex(s, c) ==
    LET hits == {i \in 1..Len(s) : s[i] = c}
    IN  IF hits = {} THEN 0 ELSE CHOOSE x \in hits : \A y \in hits : y <= x

\* What json.loads makes of a text that is not JSON.
JSONDecodeError == [decode_error |-> TRUE]

WordComplete == <<"c", "o", "m", "p", "l", "e", "t", "e">>

WordRecoverable == <<"r", "e", "c", "o", "v", "e", "r", "a", "b", "l", "e">>

\* A judge check that fails closed: an oracle call that raised counts as invalid.
GetModelValidationFailClosed(sentence, triplet, judge) ==
    IF judge.kind = "raise" THEN [valid |-> FALSE, error |-> judge.message]
    ELSE LET response == judge.text
             start_idx == FirstIndex(response, "{", 1)
             end_idx == LastIndex(response, "}")
             has_block == start_idx >= 1 /\ end_idx > start_idx
             parsed == judge.json
             is_complete == /\ Contains(Lower(response), WordComplete)
                            /\ ~Contains(response, <<"u4e0d", "u5b8c", "zheng">>)
             is_recoverable == \/ Contains(Lower(response), WordRecoverable)
                               \/ Contains(response, <<"ke", "hui", "fu">>)
         IN  IF has_block /\ parsed # JSONDecodeError
             THEN [valid |-> Get(parsed, "complete", TRUE) /\ Get(parsed, "recoverable", TRUE),
                   missing_info |-> Get(parsed, "missing_info", <<>>),
                   suggestions |-> Get(parsed, "suggestions", <<>>),
                   raw_response |-> response]
             ELSE [valid |-> is_complete /\ is_recoverable,
                   raw_response |-> response,
                   missing_info |-> <<>>,
                   suggestions |-> <<>>]

\* AgentB._get_model_validation.  judge is what the oracle call did: it raised, or
\* it returned a text; judge.json is what json.loads makes of the text's
\* outermost brace block.
GetModelValidation(sentence, triplet, judge) ==
    IF judge.kind = "raise" THEN [valid |-> TRUE, error |-> judge.message]
    ELSE LET response == judge.text
             start_idx == FirstIndex(response, "{", 1)
             end_idx == LastIndex(response, "}")
             has_block == start_idx >= 1 /\ end_idx > start_idx
             parsed == judge.json
             is_complete == /\ Contains(Lower(response), WordComplete)
                            /\ ~Contains(response, <<"u4e0d", "u5b8c", "zheng">>)
             is_recoverable == \/ Contains(Lower(response), WordRecoverable)
                               \/ Contains(response, <<"ke", "hui", "fu">>)
         IN  IF has_block /\ parsed # JSONDecodeError
             THEN [valid |-> Get(parsed, "complete", TRUE) /\ Get(parsed, "recoverable", TRUE),
                   missing_info |-> Get(parsed, "missing_info", <<>>),
                   suggestions |-> Get(parsed, "suggestions", <<>>),
                   raw_response |-> response]
             ELSE [valid |-> is_complete /\ is_recoverable,
                   raw_response |-> response,
                   missing_info |-> <<>>,
                   suggestions |-> <<>>]

\* f"{label}{'; '.join(issues)}": a feedback text is a sequence of its pieces.
FeedbackPart(label, issues) ==
    <<label>> \o Join(<<"; ">>, [i \in 1..Len(issues) |-> <<issues[i]>>])

\* A feedback composer that puts the recoverability group before the structural one.
GenerateFeedbackReordered(structure_check, argument_integrity_check, completeness_check, recoverability_check, model_feedback, is_valid) ==
    IF is_valid THEN <<"accepted">>
    ELSE LET part(failed, label, issues) ==
                 IF failed THEN <<FeedbackPart(label, issues)>> ELSE <<>>
             missing_info == Get(model_feedback, "missing_info", <<>>)
             suggestions == Get(model_feedback, "suggestions", <<>>)
             feedback_parts ==
                 part(~recoverability_check.valid, "recoverability: ",
                      recoverability_check.issues)
                 \o part(~argument_integrity_check.valid, "argument_integrity: ",
                         argument_integrity_check.issues)
                 \o part(~completeness_check.valid, "completeness: ", completeness_check.issues)
                 \o part(~structure_check.valid, "structure: ", structure_check.issues)
                 \o part(missing_info # <<>>, "missing_info: ", missing_info)
                 \o part(suggestions # <<>>, "suggestions: ", suggestions)
         IN  IF feedback_parts # <<>> THEN Join(<<"; ">>, feedback_parts)
             ELSE <<"needs_improvement">>

\* AgentB._generate_feedback
GenerateFeedback(structure_check, argument_integrity_check, completeness_check, recoverability_check, model_feedback, is_valid) ==
    IF is_valid THEN <<"accepted">>
    ELSE LET part(failed, label, issues) ==
                 IF failed THEN <<FeedbackPart(label, issues)>> ELSE <<>>
             missing_info == Get(model_feedback, "missing_info", <<>>)
             suggestions == Get(model_feedback, "suggestions", <<>>)
             feedback_parts ==
                 part(~structure_check.valid, "structure: ", structure_check.issues)
                 \o part(~argument_integrity_check.valid, "argument_integrity: ",
                         argument_integrity_check.issues)
                 \o part(~completeness_check.valid, "completeness: ", completeness_check.issues)
                 \o part(~recoverability_check.valid, "recoverability: ",
                         recoverability_check.issues)
                 \o part(missing_info # <<>>, "missing_info: ", missing_info)
                 \o part(suggestions # <<>>, "suggestions: ", suggestions)
         IN  IF feedback_parts # <<>> THEN Join(<<"; ">>, feedback_parts)
             ELSE <<"needs_improvement">>

\* A validate_triplet whose verdict leaves the judge out.
ValidateTripletLocalOnly(sentence, triplet, judge) ==
    LET structure_check == CheckStructure(triplet)
        argument_integrity_check == CheckArgumentIntegrity(sentence, triplet)
        completeness_check == CheckSemanticCompleteness(sentence, triplet)
        recoverability_check == CheckRecoverability(sentence, triplet)
        model_feedback == GetModelValidation(sentence, triplet, judge)
        is_valid == /\ structure_check.valid
                    /\ argument_integrity_check.valid
                    /\ completeness_check.valid
                    /\ recoverability_check.valid
    IN  IF IsRaised(argument_integrity_check) \/ IsRaised(completeness_check) THEN Raised
        ELSE [sentence |-> sentence,
              triplet |-> triplet,
              is_valid |-> is_valid,
              structure_check |-> structure_check,
              argument_integrity_check |-> argument_integrity_check,
              completeness_check |-> completeness_check,
              recoverability_check |-> recoverability_check,
              model_feedback |-> model_feedback,
              feedback |-> GenerateFeedback(structure_check, argument_integrity_check,
                                            completeness_check, recoverability_check,
                                            model_feedback, is_valid)]

\* AgentB.validate_triplet, up to its return value: the five checks in order, the
\* verdict and the feedback; Raised when a check raises.
ValidateTriplet(sentence, triplet, judge) ==
    LET structure_check == CheckStructure(triplet)
        argument_integrity_check == CheckArgumentIntegrity(sentence, triplet)
        completeness_check == CheckSemanticCompleteness(sentence, triplet)
        recoverability_check == CheckRecoverability(sentence, triplet)
        model_feedback == GetModelValidation(sentence, triplet, judge)
        is_valid == /\ structure_check.valid
                    /\ argument_integrity_check.valid
                    /\ completeness_check.valid
                    /\ recoverability_check.valid
                    /\ model_feedback.valid
    IN  IF IsRaised(argument_integrity_check) \/ IsRaised(completeness_check) THEN Raised
        ELSE [sentence |-> sentence,
              triplet |-> triplet,
              is_valid |-> is_valid,
              structure_check |-> structure_check,
              argument_integrity_check |-> argument_integrity_check,
              completeness_check |-> completeness_check,
              recoverability_check |-> recoverability_check,
              model_feedback |-> model_feedback,
              feedback |-> GenerateFeedback(structure_check, argument_integrity_check,
                                            completeness_check, recoverability_check,
                                            model_feedback, is_valid)]

\* ------------------------------------------------------------------ AgentA: extract and revise

\* None in a slot that otherwise holds a dict.
NoDict == [is_none |-> TRUE]

\* The triplet of the parsed response with the two keys the callers add to it.
Stamped(triplet, response, attempt) ==
    [sentence |-> triplet.sentence, mods |-> triplet.mods, predicate |-> triplet.predicate,
     subject |-> triplet.subject, object |-> triplet.object, raw |-> triplet.raw,
     raw_response |-> response, attempt |-> attempt]

\* AgentA._extract_single_triplet (extract_triplets on one sentence), up to its
\* return value.  oracle is what generate_response did: a text, or an exception
\* with its message.
ExtractSingleTriplet(sentence, oracle) ==
    IF oracle.kind = "raise"
    THEN [error |-> oracle.message, sentence |-> sentence, triplet |-> NoDict, attempt |-> 1]
    ELSE [sentence |-> sentence,
          triplet |-> Stamped(ParseTripletResponse(oracle.text, sentence), oracle.text, 1),
          raw_response |-> oracle.text,
          attempt |-> 1]

\* AgentA._build_revision_prompt: the parts of the prompt that vary.
BuildRevisionPrompt(sentence, triplet, feedback) ==
    [sentence |-> sentence, triplet_str |-> FormatTriplet(triplet), feedback |-> feedback]

\* AgentA.revise_triplet, up to its return value.
ReviseTriplet(feedback, original_triplet, oracle) ==
    IF oracle.kind = "raise" THEN original_triplet
    ELSE LET attempt == Get(original_triplet, "attempt", 1) + 1
         IN  [sentence |-> original_triplet.sentence,
              triplet |-> Stamped(ParseTripletResponse(oracle.text, original_triplet.sentence),
                                  oracle.text, attempt),
              raw_response |-> oracle.text,
              attempt |-> attempt,
              feedback |-> feedback]

\* ------------------------------------------------------------------ the oracle's text

\* The fragments the text generator emits, one per step.
Tokens ==
    { <<"{", "k", "=", "\"", "v", "\"", "}">>,
      <<"{", "}">>,
      <<" ">>,
      <<"p", "(", "a">>,
      <<",", " ">>,
      <<")">>,
      <<"n", "u", "l", "l">>,
      <<"{", "k", "=", "\"", "v", "(", "a", ",", " ", "a", ")", "\"", "}">> }

MaxTokens == 5

\* The sentences of the runs: '他跑步' and '小明每天在公园跑步'.
SentencePlain == <<"ta", "pao", "bu">>

SentencePark == <<"xiao", "ming", "mei", "tian", "zai", "gong", "yuan", "pao", "bu">>

\* The lists process_batch is called with.
Batches == {<<>>, <<SentencePlain>>, <<SentencePark, SentencePlain>>}

\* '{time="每天", location="在公园"} 跑步(小明, null)'
TextPark ==
    <<"{">> \o KeyTime \o <<"=", "\"", "mei", "tian", "\"", ",", " ">>
    \o KeyLocation \o <<"=", "\"", "zai", "gong", "yuan", "\"", "}", " ">>
    \o <<"pao", "bu", "(", "xiao", "ming", ",", " ", "n", "u", "l", "l", ")">>

\* '他跑步': a response with no structure.
TextGarbage == <<"ta", "pao", "bu">>

\* What a call of generate_response by AgentA can do: return a text, or raise an
\* exception whose message is empty or not.
ExtractorOutcomes ==
    { [kind |-> "text", text |-> TextPark],
      [kind |-> "text", text |-> TextGarbage],
      [kind |-> "raise", message |-> <<"t", "i", "m", "e", "o", "u", "t">>],
      [kind |-> "raise", message |-> <<>>] }

\* What a call of generate_response by AgentB can do in the runs of the loop.
JudgeOutcomes ==
    { [kind |-> "raise", message |-> <<"t", "i", "m", "e", "o", "u", "t">>],
      [kind |-> "text",
       text |-> <<"{", "j", "}">>,
       json |-> [complete |-> FALSE, recoverable |-> TRUE,
                 missing_info |-> <<"location">>, suggestions |-> <<>>]] }

\* The largest max_iterations a DualAgentSystem is constructed with.
MaxIterations == 2

VARIABLES
    text,                  \* the response of the text generator
    ntokens,               \* the fragments emitted so far
    parsed,                \* _parse_triplet_response(text)
    formatted,             \* _format_triplet(parsed)
    reparsed,              \* _parse_triplet_response(formatted)
    v_sentence,            \* the sentence of a direct validate_triplet call
    validated,             \* what that call returned
    checked,               \* what the four local checks return, each called on its own
    max_iterations,        \* DualAgentSystem.max_iterations
    validator,             \* the agent_b injected: "AgentB", or "Injected" (any validator)
    sentences,             \* process_batch's argument
    idx,                   \* process_batch: the sentences taken so far
    pc,                    \* where process_batch / process_sentence stands
    current_triplet,       \* process_sentence: current_triplet
    iteration,             \* process_sentence: iteration
    validation_result,     \* process_sentence: validation_result
    interaction_history,   \* DualAgentSystem.interaction_history
    results,               \* process_batch: results
    extraction_history,    \* AgentA.extraction_history
    validation_history,    \* AgentB.validation_history
    tracker_results,       \* PerformanceTracker.validation_results
    revision_prompt,       \* the last prompt revise_triplet sent
    judge_calls,           \* the calls of generate_response AgentB has made
    events,                \* the calls of the current process_sentence run, in order
    data_list,             \* BatchProcessor.process_batch: data_list
    batch_size,            \* BatchProcessor.process_batch: batch_size
    num_workers,           \* BatchProcessor.process_batch: num_workers
    next_i,                \* BatchProcessor.process_batch: i of the submitting loop
    futures,               \* BatchProcessor.process_batch: futures, each with its state
    yielded,               \* the futures as_completed has yielded
    batch_results,         \* BatchProcessor.process_batch: results
    batch_pc,              \* where BatchProcessor.process_batch stands
    cache,                 \* CacheManager.cache, in insertion order
    max_size,              \* CacheManager.max_size
    hits,                  \* CacheManager.hits
    misses,                \* CacheManager.misses
    cache_calls            \* the calls made on the CacheManager, in order

codecVars == <<text, ntokens, parsed, formatted, reparsed, v_sentence, validated, checked>>

loopVars == <<max_iterations, validator, sentences, idx, pc, current_triplet, iteration,
              validation_result, interaction_history, results, extraction_history,
              validation_history, tracker_results, revision_prompt, judge_calls, events>>

batchVars == <<data_list, batch_size, num_workers, next_i, futures, yielded, batch_results,
               batch_pc>>

cacheVars == <<cache, max_size, hits, misses, cache_calls>>

vars == <<codecVars, loopVars, batchVars, cacheVars>>

NoTriplet == [kind |-> "none"]

CodecIdle ==
    /\ text = <<>>
    /\ ntokens = 0
    /\ parsed = NoTriplet
    /\ formatted = NoneVal
    /\ reparsed = NoTriplet
    /\ v_sentence = <<>>
    /\ validated = NoDict
    /\ checked = NoDict

\* No batch is being processed.
LoopIdle ==
    /\ max_iterations = 0
    /\ validator = "AgentB"
    /\ sentences = <<>>
    /\ idx = 0
    /\ pc = "Idle"
    /\ current_triplet = NoDict
    /\ iteration = 0
    /\ validation_result = NoDict
    /\ interaction_history = <<>>
    /\ results = <<>>
    /\ extraction_history = <<>>
    /\ validation_history = <<>>
    /\ tracker_results = <<>>
    /\ revision_prompt = NoDict
    /\ judge_calls = 0
    /\ events = <<>>

\* No BatchProcessor.process_batch call is under way.
BatchIdle ==
    /\ data_list = <<>>
    /\ batch_size = 1
    /\ num_workers = 1
    /\ next_i = 0
    /\ futures = <<>>
    /\ yielded = <<>>
    /\ batch_results = <<>>
    /\ batch_pc = "Idle"

\* No CacheManager is in use.
CacheIdle ==
    /\ cache = <<>>
    /\ max_size = 0
    /\ hits = 0
    /\ misses = 0
    /\ cache_calls = <<>>

\* ------------------------------------------------------------------ the codec on generated texts

\* '{time="每天早上", location="在公园"} 跑步(小明, null)'
TextMorningRun ==
    <<"{">> \o KeyTime \o <<"=", "\"", "mei", "tian", "zao", "shang", "\"", ",", " ">>
    \o KeyLocation \o <<"=", "\"", "zai", "gong", "yuan", "\"", "}", " ">>
    \o <<"pao", "bu", "(", "xiao", "ming", ",", " ", "n", "u", "l", "l", ")">>

\* The responses that arrive whole, with no fragment left to emit.
WholeTexts == {TextMorningRun}

\* The response is still to be generated fragment by fragment, or it has arrived whole.
InitCodec ==
    /\ LoopIdle
    /\ BatchIdle
    /\ CacheIdle
    /\ text \in {<<>>} \cup WholeTexts
    /\ ntokens = IF text = <<>> THEN 0 ELSE MaxTokens
    /\ parsed = NoTriplet
    /\ formatted = NoneVal
    /\ reparsed = NoTriplet
    /\ v_sentence = <<>>
    /\ validated = NoDict
    /\ checked = NoDict

\* generate_response produces the response one fragment at a time.
EmitToken ==
    /\ parsed = NoTriplet
    /\ ntokens < MaxTokens
    /\ \E tok \in Tokens : text' = text \o tok
    /\ ntokens' = ntokens + 1
    /\ UNCHANGED <<parsed, formatted, reparsed, v_sentence, validated, checked, loopVars>>
    /\ UNCHANGED <<batchVars, cacheVars>>

\* _parse_triplet_response on the finished response.
ParseResponse ==
    /\ parsed = NoTriplet
    /\ parsed' = ParseTripletResponse(text, <<>>)
    /\ UNCHANGED <<text, ntokens, formatted, reparsed, v_sentence, validated, checked, loopVars>>
    /\ UNCHANGED <<batchVars, cacheVars>>

\* _format_triplet of the parsed triplet, parsed again.
FormatAndReparse ==
    /\ parsed # NoTriplet
    /\ formatted = NoneVal
    /\ formatted' = FormatTriplet(parsed)
    /\ reparsed' = ParseTripletResponse(FormatTriplet(parsed), <<>>)
    /\ UNCHANGED <<text, ntokens, parsed, v_sentence, validated, checked, loopVars>>
    /\ UNCHANGED <<batchVars, cacheVars>>

NextCodec == EmitToken \/ ParseResponse \/ FormatAndReparse

SpecCodec == InitCodec /\ [][NextCodec]_vars

\* ------------------------------------------------------------------ validate_triplet on parsed triplets

\* '跑步(他, null)'
TextPlain == <<"pao", "bu", "(", "ta", ",", " ", "n", "u", "l", "l", ")">>

\* '{time="每天"}': modifiers and no call.
TextModsOnly == <<"{">> \o KeyTime \o <<"=", "\"", "mei", "tian", "\"", "}">>

\* '跑步(null, null)'
TextNoSubject == <<"pao", "bu", "(", "n", "u", "l", "l", ",", " ", "n", "u", "l", "l", ")">>

\* '{location="在"} 跑步(小明, 公园)'
TextShortLocation ==
    <<"{">> \o KeyLocation \o <<"=", "\"", "zai", "\"", "}", " ">>
    \o <<"pao", "bu", "(", "xiao", "ming", ",", " ", "gong", "yuan", ")">>

\* '{tool="用钉子", manner="仔细"} 钉住(她, 这块木板)'
TextNail ==
    <<"{", "t", "o", "o", "l", "=", "\"", "yong", "ding", "zi", "\"", ",", " ", "m", "a", "n",
      "n", "e", "r", "=", "\"", "zi3", "xi", "\"", "}", " ", "ding", "zhu", "(", "ta_she", ",",
      " ", "zhe", "kuai4", "mu", "ban", ")">>

\* '{attribute="高大的"} 看到(男人, 一只鸟)'
TextAttribute ==
    <<"{", "a", "t", "t", "r", "i", "b", "u", "t", "e", "=", "\"", "gao", "da", "de", "\"",
      "}", " ", "kan", "dao", "(", "nan", "ren", ",", " ", "yi", "zhi", "niao", ")">>

\* '{location="在远方的山上"} 看到(高大的男人, 一只鸟)'
TextLocationFull ==
    <<"{", "l", "o", "c", "a", "t", "i", "o", "n", "=", "\"", "zai", "yuan3", "fang", "de",
      "shan", "shang", "\"", "}", " ", "kan", "dao", "(", "gao", "da", "de", "nan", "ren", ",",
      " ", "yi", "zhi", "niao", ")">>

\* '{attribute="在远方的"} 看到(男人, 一只鸟)'
TextAttributeCue ==
    <<"{", "a", "t", "t", "r", "i", "b", "u", "t", "e", "=", "\"", "zai", "yuan3", "fang",
      "de", "\"", "}", " ", "kan", "dao", "(", "nan", "ren", ",", " ", "yi", "zhi", "niao",
      ")">>

\* '{attribute=""} 看到(男人, 一只鸟)'
TextAttributeEmpty ==
    <<"{", "a", "t", "t", "r", "i", "b", "u", "t", "e", "=", "\"", "\"", "}", " ", "kan",
      "dao", "(", "nan", "ren", ",", " ", "yi", "zhi", "niao", ")">>

\* '{location="山上"} 看到(男人, 一只鸟)'
TextLocationTwo ==
    <<"{", "l", "o", "c", "a", "t", "i", "o", "n", "=", "\"", "shan", "shang", "\"", "}", " ",
      "kan", "dao", "(", "nan", "ren", ",", " ", "yi", "zhi", "niao", ")">>

\* '{location=""} 看到(男人, 一只鸟)'
TextLocationEmpty ==
    <<"{", "l", "o", "c", "a", "t", "i", "o", "n", "=", "\"", "\"", "}", " ", "kan", "dao",
      "(", "nan", "ren", ",", " ", "yi", "zhi", "niao", ")">>

\* '{degree="很"} 快(他, null)'
TextFast ==
    <<"{", "d", "e", "g", "r", "e", "e", "=", "\"", "hen", "\"", "}", " ", "kuai", "(", "ta",
      ",", " ", "n", "u", "l", "l", ")">>

\* The responses whose triplets are validated; the empty one stands for a triplet that
\* comes from no response.
CandidateTexts ==
    {<<>>, TextPark, TextGarbage, TextPlain, TextModsOnly, TextNoSubject, TextShortLocation,
     TextNail, TextAttribute, TextLocationFull, TextAttributeCue, TextAttributeEmpty,
     TextLocationTwo, TextLocationEmpty, TextFast}

\* Triplets a caller of validate_triplet builds by hand: one whose mods is the list
\* ['每天'], one with no 'predicate' key, one whose predicate is the empty string.
GivenTriplets ==
    { [predicate |-> <<"pao", "bu">>, subject |-> <<"xiao", "ming">>, object |-> NoneVal,
       mods |-> << << <<"mei", "tian">> >> >>],
      [subject |-> <<"ta">>, object |-> NoneVal, mods |-> <<>>],
      [predicate |-> <<>>, subject |-> <<"ta">>, object |-> NoneVal, mods |-> <<>>] }

\* '他很快' : a sentence with a modifier cue and none of the texts' predicates.
SentenceFast == <<"ta", "hen", "kuai">>

\* '她用钉子仔细地钉住了这块木板。'
SentenceNail ==
    <<"ta_she", "yong", "ding", "zi", "zi3", "xi", "di", "ding", "zhu", "le", "zhe", "kuai4",
      "mu", "ban", "juhao">>

\* '高大的男人看到一只鸟'
SentenceBird ==
    <<"gao", "da", "de", "nan", "ren", "kan", "dao", "yi", "zhi", "niao">>

ValidatedSentences == {SentencePlain, SentencePark, SentenceFast, SentenceNail, SentenceBird}

\* What the judge's generate_response can do: raise, answer with a JSON verdict,
\* with a brace block that is no JSON, or with plain words.
AllJudgeOutcomes ==
    JudgeOutcomes \cup
    { [kind |-> "text", text |-> <<"{", "j", "}">>,
       json |-> [complete |-> TRUE, recoverable |-> TRUE,
                 missing_info |-> <<>>, suggestions |-> <<>>]],
      [kind |-> "text", text |-> <<"{", "j", "}">>,
       json |-> [complete |-> TRUE, recoverable |-> FALSE, suggestions |-> <<"rephrase">>]],
      [kind |-> "text", text |-> <<"{">> \o WordComplete \o <<"}">>, json |-> JSONDecodeError],
      [kind |-> "text", text |-> WordComplete \o <<" ">> \o WordRecoverable,
       json |-> JSONDecodeError],
      [kind |-> "text", text |-> <<"o", "k">>, json |-> JSONDecodeError] }

InitValidate ==
    /\ LoopIdle
    /\ BatchIdle
    /\ CacheIdle
    /\ text \in CandidateTexts
    /\ ntokens = 0
    /\ parsed = NoTriplet
    /\ formatted = NoneVal
    /\ reparsed = NoTriplet
    /\ v_sentence \in ValidatedSentences
    /\ validated = NoDict
    /\ checked = NoDict

\* _parse_triplet_response(response, sentence) on the candidate's text.
ParseCandidate ==
    /\ parsed = NoTriplet
    /\ parsed' = ParseTripletResponse(text, v_sentence)
    /\ UNCHANGED <<text, ntokens, formatted, reparsed, v_sentence, validated, checked, loopVars>>
    /\ UNCHANGED <<batchVars, cacheVars>>

\* The caller supplies a triplet of its own.
GiveCandidate ==
    /\ parsed = NoTriplet
    /\ text = <<>>
    /\ parsed' \in GivenTriplets
    /\ UNCHANGED <<text, ntokens, formatted, reparsed, v_sentence, validated, checked, loopVars>>
    /\ UNCHANGED <<batchVars, cacheVars>>

\* The four local checks of AgentB, each called on the candidate on its own.
CheckCandidate ==
    /\ parsed # NoTriplet
    /\ checked = NoDict
    /\ validated = NoDict
    /\ checked' = [structure_check |-> CheckStructure(parsed),
                   argument_integrity_check |-> CheckArgumentIntegrity(v_sentence, parsed),
                   completeness_check |-> CheckSemanticCompleteness(v_sentence, parsed),
                   recoverability_check |-> CheckRecoverability(v_sentence, parsed)]
    /\ UNCHANGED <<text, ntokens, parsed, formatted, reparsed, v_sentence, validated, loopVars>>
    /\ UNCHANGED <<batchVars, cacheVars>>

\* AgentB.validate_triplet(sentence, triplet) on the candidate: the result, the call of
\* the judge and the records appended before the return (none when a check raises).
DirectValidate ==
    /\ parsed # NoTriplet
    /\ validated = NoDict
    /\ \E judge \in AllJudgeOutcomes :
         LET result == ValidateTriplet(v_sentence, parsed, judge)
         IN  /\ validated' = result
             /\ judge_calls' = IF IsRaised(result) THEN judge_calls ELSE judge_calls + 1
             /\ validation_history' =
                    IF IsRaised(result) THEN validation_history
                    ELSE Append(validation_history,
                                [sentence |-> v_sentence, is_valid |-> result.is_valid])
             /\ tracker_results' =
                    IF IsRaised(result) THEN tracker_results
                    ELSE Append(tracker_results,
                                [sentence |-> v_sentence, is_valid |-> result.is_valid])
    /\ UNCHANGED <<text, ntokens, parsed, formatted, reparsed, v_sentence, checked,
                   max_iterations, validator, sentences, idx, pc, current_triplet, iteration,
                   validation_result, interaction_history, results, extraction_history,
                   revision_prompt, events>>
    /\ UNCHANGED <<batchVars, cacheVars>>

NextValidate == ParseCandidate \/ GiveCandidate \/ CheckCandidate \/ DirectValidate

SpecValidate == InitValidate /\ [][NextValidate]_vars

\* ------------------------------------------------------------------ DualAgentSystem

\* DualAgentSystem.__init__ and the call of process_batch.
Init ==
    /\ CodecIdle
    /\ BatchIdle
    /\ CacheIdle
    /\ max_iterations \in 0..MaxIterations
    /\ validator \in {"AgentB", "Injected"}
    /\ sentences \in Batches
    /\ idx = 0
    /\ pc = "BatchLoop"
    /\ current_triplet = NoDict
    /\ iteration = 0
    /\ validation_result = NoDict
    /\ interaction_history = <<>>
    /\ results = <<>>
    /\ extraction_history = <<>>
    /\ validation_history = <<>>
    /\ tracker_results = <<>>
    /\ revision_prompt = NoDict
    /\ judge_calls = 0
    /\ events = <<>>

\* A slice that keeps the whole list.
WholeList(lst, n) == lst

\* lst[-1:]
LastOne(lst, n) ==
    IF lst = <<>> THEN lst ELSE SubSeq(lst, Len(lst), Len(lst))

\* lst[-n:]
LastN(lst, n) ==
    IF n = 0 \/ n >= Len(lst) THEN lst ELSE SubSeq(lst, Len(lst) - n + 1, Len(lst))

\* The sentence process_sentence is working on.
Sentence == sentences[idx]

\* process_batch: the for loop takes the next sentence and calls process_sentence.
BatchNext ==
    /\ pc = "BatchLoop"
    /\ idx < Len(sentences)
    /\ idx' = idx + 1
    /\ pc' = "Extract"
    /\ events' = <<>>
    /\ UNCHANGED <<codecVars, max_iterations, validator, sentences, current_triplet, iteration,
                   validation_result, interaction_history, results, extraction_history,
                   validation_history, tracker_results, revision_prompt, judge_calls>>
    /\ UNCHANGED <<batchVars, cacheVars>>

\* process_sentence: the initial extraction and the check of its 'error'.
InitialExtraction ==
    /\ pc = "Extract"
    /\ \E oracle \in ExtractorOutcomes :
         LET initial_triplet == ExtractSingleTriplet(Sentence, oracle)
         IN  /\ events' = Append(events, IF oracle.kind = "raise" THEN "extract_raise"
                                                                  ELSE "extract")
             /\ extraction_history' =
                    IF oracle.kind = "raise" THEN extraction_history
                    ELSE Append(extraction_history,
                                [sentence |-> Sentence, triplet |-> initial_triplet.triplet,
                                 attempt |-> 1])
             /\ IF Truthy(Get(initial_triplet, "error", NoneVal))
                THEN /\ results' = Append(results, initial_triplet)
                     /\ pc' = "BatchLoop"
                     /\ UNCHANGED <<current_triplet, iteration>>
                ELSE /\ current_triplet' = initial_triplet
                     /\ iteration' = 0
                     /\ pc' = "LoopHead"
                     /\ UNCHANGED results
    /\ UNCHANGED <<codecVars, max_iterations, validator, sentences, idx, validation_result,
                   interaction_history, validation_history, tracker_results, revision_prompt,
                   judge_calls>>
    /\ UNCHANGED <<batchVars, cacheVars>>

\* A validate_triplet call that is handed the parsed triplet inside what the extractor
\* returned.
ValidationsOfInner(sentence, triplet) ==
    IF validator = "AgentB"
    THEN {ValidateTriplet(sentence, Get(triplet, "triplet", triplet), judge) :
              judge \in JudgeOutcomes}
    ELSE {[is_valid |-> v, feedback |-> <<"feedback">>] : v \in BOOLEAN}

\* What a call of agent_b.validate_triplet can return: AgentB's result for some
\* answer of the judge, or any verdict when another validator is injected.
Validations(sentence, triplet) ==
    IF validator = "AgentB"
    THEN {ValidateTriplet(sentence, triplet, judge) : judge \in JudgeOutcomes}
    ELSE {[is_valid |-> v, feedback |-> <<"feedback">>] : v \in BOOLEAN}

\* The records validate_triplet appends before it returns.
Recorded(history, sentence, result) ==
    IF validator = "AgentB"
    THEN Append(history, [sentence |-> sentence, is_valid |-> result.is_valid])
    ELSE history

\* The while loop with <= for <.
LoopGuardInclusive == iteration <= max_iterations

\* The calls of the judge after a validate_triplet that returned.
JudgeCalled(calls) == IF validator = "AgentB" THEN calls + 1 ELSE calls

\* The test of the while loop.
LoopGuard == iteration < max_iterations

\* The test that sends an invalid triplet back for revision.
ReviseGuard(it) == it < max_iterations

\* An acceptance that reports the budget as the number of iterations.
AcceptedResultBudget(it, result, history) ==
    [sentence |-> Sentence,
     final_triplet |-> current_triplet,
     is_valid |-> TRUE,
     iterations |-> max_iterations,
     validation_result |-> result,
     interaction_history |-> LastN(history, it)]

\* What process_sentence returns on acceptance.
AcceptedResult(it, result, history) ==
    [sentence |-> Sentence,
     final_triplet |-> current_triplet,
     is_valid |-> TRUE,
     iterations |-> it,
     validation_result |-> result,
     interaction_history |-> LastN(history, it)]

\* A return after the loop that leaves out the status.
ExhaustedResultNoStatus(final_validation) ==
    [sentence |-> Sentence,
     final_triplet |-> current_triplet,
     is_valid |-> final_validation.is_valid,
     iterations |-> max_iterations,
     final_validation |-> final_validation,
     interaction_history |-> LastN(interaction_history, max_iterations)]

\* What process_sentence returns after the loop.
ExhaustedResult(final_validation) ==
    [sentence |-> Sentence,
     final_triplet |-> current_triplet,
     is_valid |-> final_validation.is_valid,
     iterations |-> max_iterations,
     final_validation |-> final_validation,
     status |-> "max_iterations_reached",
     interaction_history |-> LastN(interaction_history, max_iterations)]

\* process_sentence: one pass of the loop body up to the revision call.
ValidateStep ==
    /\ pc = "LoopHead"
    /\ LoopGuard
    /\ \E result \in Validations(Sentence, current_triplet) :
         IF IsRaised(result)
         THEN /\ pc' = "Raised"
              /\ events' = Append(events, "validate_raise")
              /\ UNCHANGED <<iteration, validation_result, interaction_history, results,
                             validation_history, tracker_results, judge_calls>>
         ELSE LET it == iteration + 1
                  history == Append(interaction_history,
                                    [sentence |-> Sentence, iteration |-> it,
                                     triplet |-> current_triplet, validation |-> result])
              IN  /\ iteration' = it
                  /\ validation_result' = result
                  /\ interaction_history' = history
                  /\ validation_history' = Recorded(validation_history, Sentence, result)
                  /\ tracker_results' = Recorded(tracker_results, Sentence, result)
                  /\ judge_calls' = JudgeCalled(judge_calls)
                  /\ events' = Append(events, IF result.is_valid THEN "validate_valid"
                                                                 ELSE "validate_invalid")
                  /\ IF result.is_valid
                     THEN /\ results' = Append(results, AcceptedResult(it, result, history))
                          /\ pc' = "BatchLoop"
                     ELSE /\ pc' = IF ReviseGuard(it) THEN "Revise" ELSE "LoopHead"
                          /\ UNCHANGED results
    /\ UNCHANGED <<codecVars, max_iterations, validator, sentences, idx, current_triplet,
                   extraction_history, revision_prompt>>
    /\ UNCHANGED <<batchVars, cacheVars>>

\* process_sentence: the revision call and the assignment of its result.
ReviseStep ==
    /\ pc = "Revise"
    /\ \E oracle \in ExtractorOutcomes :
         LET original_triplet == [sentence |-> Sentence, triplet |-> current_triplet,
                                  attempt |-> iteration]
             revised_triplet == ReviseTriplet(validation_result.feedback, original_triplet, oracle)
         IN  /\ revision_prompt' = BuildRevisionPrompt(Sentence, current_triplet,
                                                       validation_result.feedback)
             /\ current_triplet' = revised_triplet
             /\ events' = Append(events, IF oracle.kind = "raise" THEN "revise_raise"
                                                                  ELSE "revise")
             /\ extraction_history' =
                    IF oracle.kind = "raise" THEN extraction_history
                    ELSE Append(extraction_history,
                                [sentence |-> Sentence, triplet |-> revised_triplet.triplet,
                                 attempt |-> revised_triplet.attempt])
    /\ pc' = "LoopHead"
    /\ UNCHANGED <<codecVars, max_iterations, validator, sentences, idx, iteration,
                   validation_result, interaction_history, results, validation_history,
                   tracker_results, judge_calls>>
    /\ UNCHANGED <<batchVars, cacheVars>>

\* process_sentence: after the loop, the final validation and the return.
FinalValidation ==
    /\ pc = "LoopHead"
    /\ ~LoopGuard
    /\ \E final_validation \in Validations(Sentence, current_triplet) :
         IF IsRaised(final_validation)
         THEN /\ pc' = "Raised"
              /\ events' = Append(events, "validate_raise")
              /\ UNCHANGED <<results, validation_history, tracker_results, judge_calls>>
         ELSE /\ results' = Append(results, ExhaustedResult(final_validation))
              /\ validation_history' = Recorded(validation_history, Sentence, final_validation)
              /\ tracker_results' = Recorded(tracker_results, Sentence, final_validation)
              /\ judge_calls' = JudgeCalled(judge_calls)
              /\ events' = Append(events, IF final_validation.is_valid THEN "final_valid"
                                                                       ELSE "final_invalid")
              /\ pc' = "BatchLoop"
    /\ UNCHANGED <<codecVars, max_iterations, validator, sentences, idx, current_triplet,
                   iteration, validation_result, interaction_history, extraction_history,
                   revision_prompt>>
    /\ UNCHANGED <<batchVars, cacheVars>>

\* The keys _save_results reads with result[...].
SavedKeys == {"sentence", "final_triplet", "is_valid", "iterations"}

\* The keys print_summary reads with result[...].
SummaryKeys == {"is_valid", "sentence", "final_triplet", "iterations"}

\* _save_results raises KeyError on a result that lacks a key it reads.
SaveRaises(rs) == \E i \in 1..Len(rs) : ~(SavedKeys \subseteq DOMAIN rs[i])

\* print_summary divides by the number of results and reads each result's keys.
SummaryRaises(rs) == Len(rs) = 0 \/ \E i \in 1..Len(rs) : ~(SummaryKeys \subseteq DOMAIN rs[i])

\* process_batch: after the for loop, the optional save and the return.
BatchReturn ==
    /\ pc = "BatchLoop"
    /\ idx = Len(sentences)
    /\ \E save_results \in BOOLEAN :
         pc' = IF save_results /\ SaveRaises(results) THEN "Raised"
               ELSE IF save_results THEN "ReturnedSaved" ELSE "Returned"
    /\ UNCHANGED <<codecVars, max_iterations, validator, sentences, idx, current_triplet,
                   iteration, validation_result, interaction_history, results,
                   extraction_history, validation_history, tracker_results, revision_prompt,
                   judge_calls, events>>
    /\ UNCHANGED <<batchVars, cacheVars>>

\* main: print_summary on what process_batch returned.
PrintSummary ==
    /\ pc \in {"Returned", "ReturnedSaved"}
    /\ pc' = IF SummaryRaises(results) THEN "Raised" ELSE "Summarised"
    /\ UNCHANGED <<codecVars, max_iterations, validator, sentences, idx, current_triplet,
                   iteration, validation_result, interaction_history, results,
                   extraction_history, validation_history, tracker_results, revision_prompt,
                   judge_calls, events>>
    /\ UNCHANGED <<batchVars, cacheVars>>

Next ==
    \/ BatchNext
    \/ InitialExtraction
    \/ ValidateStep
    \/ ReviseStep
    \/ FinalValidation
    \/ BatchReturn
    \/ PrintSummary

Spec == Init /\ [][Next]_vars

\* ------------------------------------------------------------------ BatchProcessor

\* The longest data_list, the largest batch_size and the largest num_workers of a call.
MaxItems == 3

MaxBatchSize == 2

MaxWorkers == 2

\* The lists process_batch is called with: the items 1..n.
DataLists == {[i \in 1..n |-> i] : n \in 0..MaxItems}

\* process_func: what the caller's function returns for a batch, one result per item.
ProcessFunc(batch) == [i \in 1..Len(batch) |-> <<"done", batch[i]>>]

\* data_list[i:i+batch_size]
Slice(lst, i, n) ==
    SubSeq(lst, i + 1, IF i + n <= Len(lst) THEN i + n ELSE Len(lst))

\* The futures in a given state.
InState(st) == {k \in 1..Len(futures) : futures[k].state = st}

\* The call of BatchProcessor.process_batch.
InitBatch ==
    /\ CodecIdle
    /\ LoopIdle
    /\ CacheIdle
    /\ data_list \in DataLists
    /\ batch_size \in 1..MaxBatchSize
    /\ num_workers \in 1..MaxWorkers
    /\ next_i = 0
    /\ futures = <<>>
    /\ yielded = <<>>
    /\ batch_results = <<>>
    /\ batch_pc = "Submit"

\* One pass of the submitting loop: executor.submit(process_func, batch).
SubmitBatch ==
    /\ batch_pc = "Submit"
    /\ next_i < Len(data_list)
    /\ futures' = Append(futures, [batch |-> Slice(data_list, next_i, batch_size),
                                   state |-> "pending"])
    /\ next_i' = next_i + batch_size
    /\ UNCHANGED <<data_list, batch_size, num_workers, yielded, batch_results, batch_pc>>
    /\ UNCHANGED <<codecVars, loopVars, cacheVars>>

\* The submitting loop ends and as_completed(futures) is entered.
AllSubmitted ==
    /\ batch_pc = "Submit"
    /\ next_i >= Len(data_list)
    /\ batch_pc' = "Collect"
    /\ UNCHANGED <<data_list, batch_size, num_workers, next_i, futures, yielded, batch_results>>
    /\ UNCHANGED <<codecVars, loopVars, cacheVars>>

\* A free worker thread of the pool takes the oldest queued work item.
WorkerStart ==
    /\ Cardinality(InState("running")) < num_workers
    /\ \E k \in InState("pending") :
         /\ \A j \in InState("pending") : k <= j
         /\ futures' = [futures EXCEPT ![k].state = "running"]
    /\ UNCHANGED <<data_list, batch_size, num_workers, next_i, yielded, batch_results, batch_pc>>
    /\ UNCHANGED <<codecVars, loopVars, cacheVars>>

\* A worker thread returns from process_func(batch) and sets the future's result.
WorkerFinish ==
    /\ \E k \in InState("running") :
         futures' = [futures EXCEPT ![k] = [batch |-> futures[k].batch,
                                            state |-> "finished",
                                            result |-> ProcessFunc(futures[k].batch)]]
    /\ UNCHANGED <<data_list, batch_size, num_workers, next_i, yielded, batch_results, batch_pc>>
    /\ UNCHANGED <<codecVars, loopVars, cacheVars>>

\* One pass of the collecting loop: as_completed yields a finished future that it has
\* not yielded yet, and results.extend(future.result()).
CollectCompleted ==
    /\ batch_pc = "Collect"
    /\ \E k \in InState("finished") :
         /\ \A j \in 1..Len(yielded) : yielded[j] # k
         /\ yielded' = Append(yielded, k)
         /\ batch_results' = batch_results \o futures[k].result
    /\ UNCHANGED <<data_list, batch_size, num_workers, next_i, futures, batch_pc>>
    /\ UNCHANGED <<codecVars, loopVars, cacheVars>>

\* Every future was yielded: the executor is shut down and results is returned.
ReturnResults ==
    /\ batch_pc = "Collect"
    /\ Len(yielded) = Len(futures)
    /\ batch_pc' = "Returned"
    /\ UNCHANGED <<data_list, batch_size, num_workers, next_i, futures, yielded, batch_results>>
    /\ UNCHANGED <<codecVars, loopVars, cacheVars>>

NextBatch ==
    \/ SubmitBatch
    \/ AllSubmitted
    \/ WorkerStart
    \/ WorkerFinish
    \/ CollectCompleted
    \/ ReturnResults

SpecBatch == InitBatch /\ [][NextBatch]_vars

\* ------------------------------------------------------------------ CacheManager

\* The largest max_size a CacheManager is constructed with, and the most calls made on it.
MaxCacheSize == 2

MaxCalls == 4

\* The keys and the values of the calls.
CacheKeys == {<<"k", "e", "y", "1">>, <<"k", "e", "y", "2">>, <<"k", "e", "y", "3">>}

CacheValues == {<<"v", "a", "l", "u", "e", "1">>, <<"v", "a", "l", "u", "e", "2">>}

\* key in self.cache
CacheHas(entries, key) == ModsHas(entries, key)

\* What CacheManager.get returns for the cache's entries.
CacheGet(entries, key) == IF CacheHas(entries, key) THEN ModsGet(entries, key) ELSE NoneVal

\* CacheManager.set raises: next(iter(self.cache)) on an empty dict is StopIteration.
SetRaises(entries, size) == Len(entries) >= size /\ entries = <<>>

\* A set that keeps the value a key already has.
CacheSetKeepFirst(entries, size, key, value) ==
    LET kept == IF Len(entries) >= size THEN Tail(entries) ELSE entries
    IN  IF CacheHas(kept, key) THEN kept ELSE ModsSet(kept, key, value)

\* The cache's entries after CacheManager.set returned: the oldest entry is deleted
\* when the cache is full, then self.cache[key] = value.
CacheSet(entries, size, key, value) ==
    LET kept == IF Len(entries) >= size THEN Tail(entries) ELSE entries
    IN  ModsSet(kept, key, value)

\* CacheManager(max_size)
InitCache ==
    /\ CodecIdle
    /\ LoopIdle
    /\ BatchIdle
    /\ cache = <<>>
    /\ max_size \in 0..MaxCacheSize
    /\ hits = 0
    /\ misses = 0
    /\ cache_calls = <<>>

\* CacheManager.set(key, value)
SetCall ==
    /\ Len(cache_calls) < MaxCalls
    /\ \E key \in CacheKeys, value \in CacheValues :
         LET raised == SetRaises(cache, max_size)
             after == IF raised THEN cache ELSE CacheSet(cache, max_size, key, value)
         IN  /\ cache' = after
             /\ cache_calls' = Append(cache_calls,
                                      [op |-> "set", key |-> key, value |-> value,
                                       raised |-> raised, before |-> cache, after |-> after])
    /\ UNCHANGED <<max_size, hits, misses>>
    /\ UNCHANGED <<codecVars, loopVars, batchVars>>

\* CacheManager.get(key)
GetCall ==
    /\ Len(cache_calls) < MaxCalls
    /\ \E key \in CacheKeys :
         /\ hits' = IF CacheHas(cache, key) THEN hits + 1 ELSE hits
         /\ misses' = IF CacheHas(cache, key) THEN misses ELSE misses + 1
         /\ cache_calls' = Append(cache_calls,
                                  [op |-> "get", key |-> key, value |-> CacheGet(cache, key),
                                   raised |-> FALSE, before |-> cache, after |-> cache])
    /\ UNCHANGED <<cache, max_size>>
    /\ UNCHANGED <<codecVars, loopVars, batchVars>>

\* CacheManager.clear()
ClearCall ==
    /\ Len(cache_calls) < MaxCalls
    /\ cache' = <<>>
    /\ hits' = 0
    /\ misses' = 0
    /\ cache_calls' = Append(cache_calls,
                             [op |-> "clear", key |-> NoneVal, value |-> NoneVal,
                              raised |-> FALSE, before |-> cache, after |-> <<>>])
    /\ UNCHANGED max_size
    /\ UNCHANGED <<codecVars, loopVars, batchVars>>

NextCache == SetCall \/ GetCall \/ ClearCall

SpecCache == InitCache /\ [][NextCache]_vars

\* ------------------------------------------------------------------ the runs of process_sentence

ExtractorEvents == {"extract", "extract_raise", "revise", "revise_raise"}

ValidatorEvents ==
    {"validate_valid", "validate_invalid", "validate_raise", "final_valid", "final_invalid"}

Count(seq, S) == Cardinality({i \in 1..Len(seq) : seq[i] \in S})

\* The calls of generate_response by AgentA in the current run.
ExtractorCalls == Count(events, ExtractorEvents)

\* The calls of validate_triplet in the current run.
ValidatorCalls == Count(events, ValidatorEvents)

\* The extractions of the current run that were handed to the validator.
AttemptsMade ==
    Cardinality({i \in 1..Len(events) :
                    /\ events[i] \in ExtractorEvents
                    /\ i < Len(events)
                    /\ events[i + 1] \in ValidatorEvents})

\* process_sentence is between its call and its return.
Running == pc \in {"Extract", "LoopHead", "Revise"}

\* process_sentence has returned for the sentence taken last.
RunReturned == idx > 0 /\ Len(results) = idx

LastResult == results[idx]

\* The three shapes of what process_sentence returns.
IsAccepted(r) == "is_valid" \in DOMAIN r /\ r.is_valid /\ "status" \notin DOMAIN r

IsExhausted(r) == "status" \in DOMAIN r /\ r.status = "max_iterations_reached"

IsExtractionFailed(r) == "error" \in DOMAIN r

ExactlyOneOutcome(r) ==
    Cardinality({k \in {"Accepted", "Exhausted", "ExtractionFailed"} :
                    \/ k = "Accepted" /\ IsAccepted(r)
                    \/ k = "Exhausted" /\ IsExhausted(r)
                    \/ k = "ExtractionFailed" /\ IsExtractionFailed(r)}) = 1

\* The entries the current run appended to interaction_history.
RunEntries ==
    {i \in 1..Len(interaction_history) : interaction_history[i].sentence = Sentence}

Max(a, b) == IF a >= b THEN a ELSE b

\* A step of process_sentence.
RunStep == InitialExtraction \/ ValidateStep \/ ReviseStep \/ FinalValidation

C2_ValidatesParsedTriplet ==
    validator = "AgentB" =>
        \A i \in 1..Len(interaction_history) :
            LET entry == interaction_history[i]
            IN  "raw_response" \in DOMAIN entry.triplet =>
                    entry.validation.structure_check =
                        CheckStructure(ParseTripletResponse(entry.triplet.raw_response,
                                                            entry.sentence))

\* C3: with max_iterations >= 1, when the validator finds the first attempt valid the
\* run has returned Accepted after one extractor call and one validator call, with
\* iterations = 1 and no revision.
C3_SinglePass ==
    (max_iterations >= 1 /\ Len(events) >= 2 /\ events[2] = "validate_valid") =>
        /\ RunReturned
        /\ Len(events) = 2
        /\ ExtractorCalls = 1
        /\ ValidatorCalls = 1
        /\ IsAccepted(LastResult)
        /\ LastResult.iterations = 1
        /\ Len(LastResult.interaction_history) = 1

C3_Witness ==
    /\ max_iterations = 2
    /\ events = <<"extract", "validate_valid">>
    /\ RunReturned

\* The extractor answered every call with the same text and the validator found it
\* invalid every time, up to the return.
StuckRun ==
    /\ RunReturned
    /\ events # <<>>
    /\ \A i \in 1..Len(events) :
           events[i] \in {"extract", "revise", "validate_invalid", "final_invalid"}
    /\ \A i \in RunEntries :
           interaction_history[i].triplet.raw_response = current_triplet.raw_response

\* C4 as stated: for every max_iterations >= 0 such a run ends Exhausted after exactly
\* max_iterations extractions, with a history of max_iterations entries.
C4_ExactlyMaxIterations ==
    StuckRun =>
        /\ IsExhausted(LastResult)
        /\ ExtractorCalls = max_iterations
        /\ Len(LastResult.interaction_history) = max_iterations

\* C4: when the extractor returns the same invalid triplet on every call the run ends
\* Exhausted and its history is the max_iterations entries of this sentence, whatever
\* was processed before; it made max_iterations extractions when max_iterations >= 1
\* and one extraction when max_iterations = 0.
C4_ExhaustedAfterBudget ==
    StuckRun =>
        /\ IsExhausted(LastResult)
        /\ ExtractorCalls = Max(1, max_iterations)
        /\ Len(LastResult.interaction_history) = max_iterations
        /\ \A i \in 1..Len(LastResult.interaction_history) :
               LastResult.interaction_history[i].sentence = Sentence

\* The second sentence of a batch, stuck, after a first that left entries behind.
C4_Witness ==
    /\ StuckRun
    /\ max_iterations = 2
    /\ idx = 2
    /\ Len(interaction_history) > 2

\* C5: a returned run is Accepted exactly when its last validation was valid, and an
\* Exhausted run is never valid.
C5_AcceptedIffLastValid ==
    (RunReturned /\ ~IsExtractionFailed(LastResult)) =>
        /\ IsAccepted(LastResult) <=> events[Len(events)] \in {"validate_valid", "final_valid"}
        /\ IsExhausted(LastResult) => ~LastResult.is_valid

\* C6: once a call of the oracle by the extractor raised, the run makes no further
\* extractor or validator call and returns ExtractionFailed.
C6_FailureEndsRun ==
    \A i \in 1..Len(events) :
        events[i] \in {"extract_raise", "revise_raise"} =>
            /\ i = Len(events)
            /\ RunReturned => IsExtractionFailed(LastResult)

\* C7: a batch in which some sentence ended ExtractionFailed still completes: neither
\* process_batch, with save_results True or False, nor print_summary raises.
C7_BatchCompletes ==
    (\E i \in 1..Len(results) : IsExtractionFailed(results[i])) => pc # "Raised"

\* C8 as stated: for every max_iterations >= 0 the attempts made never exceed it.
C8_AttemptsWithinBudget == AttemptsMade <= max_iterations

\* C8: the attempts recorded for a sentence never exceed max_iterations, and the
\* attempts made never exceed it when max_iterations >= 1; with max_iterations = 0
\* one attempt is made.
C8_AttemptsBounded ==
    idx > 0 =>
        /\ Cardinality(RunEntries) <= max_iterations
        /\ iteration <= max_iterations
        /\ AttemptsMade <= Max(1, max_iterations)

\* A run that used its whole budget of two attempts.
C8_Witness ==
    /\ max_iterations = 2
    /\ idx > 0
    /\ AttemptsMade = 2
    /\ Cardinality(RunEntries) = 2

\* ------------------------------------------------------------------ validate_triplet and the codec

\* parse's soft failure: no predicate, no arguments, no modifiers.
SoftFailure(t) ==
    /\ t.predicate = NoneVal
    /\ t.subject = NoneVal
    /\ t.object = NoneVal
    /\ t.mods = <<>>

\* C9: validate_triplet on a soft-failure triplet of the parser does not raise and
\* returns an invalid structural check that names the missing predicate.
C9_SoftFailureValidated ==
    (validated # NoDict /\ SoftFailure(parsed)) =>
        /\ ~IsRaised(validated)
        /\ ~validated.structure_check.valid
        /\ \E i \in 1..Len(validated.structure_check.issues) :
               validated.structure_check.issues[i] = "missing_predicate"

\* The reparsed triplet has the predicate, subject, object and mods of the parsed one.
SameTriplet ==
    /\ reparsed.predicate = parsed.predicate
    /\ reparsed.subject = parsed.subject
    /\ reparsed.object = parsed.object
    /\ reparsed.mods = parsed.mods

\* C10 as stated: every triplet the parser returns, soft failures included, comes
\* back from format and parse with the same predicate, subject, object and mods.
C10_RoundTrip == reparsed # NoTriplet => SameTriplet

HasAny(s, chars) == s # NoneVal /\ \E i \in 1..Len(s) : s[i] \in chars

\* The triplets the DSL can write back: a predicate, no brace in an argument, no
\* opening parenthesis in a modifier's value.
Writable(t) ==
    /\ t.predicate # NoneVal
    /\ ~HasAny(t.subject, {"{", "}"})
    /\ ~HasAny(t.object, {"{", "}"})
    /\ \A i \in 1..Len(t.mods) : ~HasAny(t.mods[i][2], {"("})

\* C10: a triplet the parser returns with a predicate, with no brace in its subject or
\* object and no opening parenthesis in a modifier's value comes back from format and
\* parse with the same predicate, subject, object and mods.
C10_RoundTripWritable == (reparsed # NoTriplet /\ Writable(parsed)) => SameTriplet

\* A triplet with a modifier, a subject and no object went through the round trip.
C10_Witness ==
    /\ reparsed # NoTriplet
    /\ Writable(parsed)
    /\ parsed.mods # <<>>
    /\ parsed.subject # NoneVal
    /\ parsed.object = NoneVal

\* ------------------------------------------------------------------ the parser's soft failure

\* Some '{' of the text is followed by a '}': the modifier block matches.
HasModifierBlock(t) ==
    \E i \in 1..Len(t) : \E j \in (i + 1)..Len(t) : t[i] = "{" /\ t[j] = "}"

\* Some word character is followed by '(', later by ',' and later still by ')': the
\* call pattern matches.
HasCallPattern(t) ==
    \E q \in 1..Len(t) : \E c \in (q + 2)..Len(t) : \E r \in (c + 1)..Len(t) :
        IsWord(t[q]) /\ t[q + 1] = "(" /\ t[c] = "," /\ t[r] = ")"

\* The text without the spaces at its ends.
Stripped(t) ==
    LET inner == {i \in 1..Len(t) : t[i] # " "}
    IN  IF inner = {} THEN <<>>
        ELSE SubSeq(t, CHOOSE i \in inner : \A j \in inner : i <= j,
                       CHOOSE i \in inner : \A j \in inner : j <= i)

\* C11: the parser never raises, and for a text that matches neither the modifier
\* block nor the call pattern it returns predicate = None, subject = None,
\* object = None, mods = {} and raw equal to the stripped text.
C11_SoftFailure ==
    (parsed # NoTriplet /\ ~HasModifierBlock(text) /\ ~HasCallPattern(text)) =>
        /\ SoftFailure(parsed)
        /\ parsed.raw = Stripped(text)

\* A text with parentheses and a space at an end that matches neither pattern.
C11_Witness ==
    /\ parsed # NoTriplet
    /\ ~HasModifierBlock(text)
    /\ ~HasCallPattern(text)
    /\ \E i \in 1..Len(text) : text[i] = "("
    /\ \E i \in 1..Len(text) : text[i] = ")"
    /\ text # Stripped(text)
    /\ SoftFailure(parsed)

\* ------------------------------------------------------------------ validate_triplet and the judge

\* validate_triplet returned a result.
Validated == validated # NoDict /\ ~IsRaised(validated)

\* The four local sub-results of the returned result are all valid.
LocalChecksValid ==
    /\ validated.structure_check.valid
    /\ validated.argument_integrity_check.valid
    /\ validated.completeness_check.valid
    /\ validated.recoverability_check.valid

\* The returned result holds the five sub-results.
FiveSubResults ==
    {"structure_check", "argument_integrity_check", "completeness_check",
     "recoverability_check", "model_feedback"} \subseteq DOMAIN validated

\* The judge's texts from which no verdict can be decoded: no brace block, or a block
\* that is not JSON.
UndecodableTexts ==
    {judge.text : judge \in {j \in AllJudgeOutcomes : j.kind = "text" /\ j.json = JSONDecodeError}}

\* C12: when the judge's text holds no brace block, or a block that is not valid JSON,
\* the oracle sub-result is valid, whatever words the text contains.
C12_UnparsableJudgeIsValid ==
    (/\ Validated
     /\ "raw_response" \in DOMAIN validated.model_feedback
     /\ validated.model_feedback.raw_response \in UndecodableTexts) =>
        validated.model_feedback.valid

\* C13: when the judge call raises, the oracle sub-result is valid, validate_triplet
\* returns, and is_valid is the conjunction of the four local checks.
C13_JudgeOutageFailsOpen ==
    (validated # NoDict /\ judge_calls = 1 /\ "error" \in DOMAIN validated.model_feedback) =>
        /\ ~IsRaised(validated)
        /\ validated.model_feedback.valid
        /\ validated.is_valid <=> LocalChecksValid

\* The judge raised on a triplet that passes the four local checks, and it is valid.
C13_Witness ==
    /\ Validated
    /\ "error" \in DOMAIN validated.model_feedback
    /\ LocalChecksValid
    /\ validated.is_valid

\* C14: validate_triplet does not call the judge once one of the four local checks has
\* failed, and still returns the five sub-results.
C14_JudgeSkippedAfterFailure ==
    (Validated /\ ~LocalChecksValid) => (judge_calls = 0 /\ FiveSubResults)

\* C15: is_valid is true exactly when the five sub-results are all valid, and the five
\* are always there.
C15_ValidIffAllFive ==
    Validated =>
        /\ FiveSubResults
        /\ validated.is_valid <=> (LocalChecksValid /\ validated.model_feedback.valid)

\* The four local checks pass and the judge's verdict decides: it said no.
C15_Witness ==
    /\ Validated
    /\ LocalChecksValid
    /\ "raw_response" \in DOMAIN validated.model_feedback
    /\ ~validated.model_feedback.valid
    /\ ~validated.is_valid

\* ------------------------------------------------------------------ the four local checks

\* The four local checks ran on the candidate.
Checked == checked # NoDict

\* The candidate's mods, and a key's presence in it whatever its shape.
CandidateMods == ModsOf(parsed)

HasKey(key) == \E i \in 1..Len(CandidateMods) : CandidateMods[i][1] = key

\* A field of the candidate is absent: missing, None or empty.
Absent(field) == Get(parsed, field, NoneVal) \in {NoneVal, <<>>}

\* C16: for the sentence '她用钉子仔细地钉住了这块木板。' and the triplet parsed from
\* {tool="用钉子", manner="仔细"} 钉住(她, 这块木板), the structural, argument-integrity and
\* semantic-completeness sub-results of validate_triplet are all valid.
C16_NailScenarioPasses ==
    (/\ Validated
     /\ v_sentence = SentenceNail
     /\ parsed = ParseTripletResponse(TextNail, SentenceNail)) =>
        /\ validated.structure_check.valid
        /\ validated.argument_integrity_check.valid
        /\ validated.completeness_check.valid

\* C17: validate_triplet returns for every triplet, and its structural sub-result is
\* invalid exactly when the predicate is absent, the subject is absent or mods is not a
\* mapping; the absence of the object alone never makes it invalid.
C17_StructuralRule ==
    validated # NoDict =>
        /\ ~IsRaised(validated)
        /\ ~validated.structure_check.valid <=>
               (Absent("predicate") \/ Absent("subject") \/ ~IsMapping(CandidateMods))

\* C18: on a mapping mods the argument-integrity sub-result is invalid exactly when mods
\* has a non-empty 'attribute' with none of the cues, or a 'location' shorter than 2
\* characters; {attribute: '高大的'} is invalid and {location: '在远方的山上'} is valid.
C18_ArgumentIntegrityRule ==
    (Checked /\ IsMapping(CandidateMods)) =>
        /\ ~IsRaised(checked.argument_integrity_check)
        /\ ~checked.argument_integrity_check.valid <=>
               \/ \E i \in 1..Len(CandidateMods) :
                      /\ CandidateMods[i][1] = KeyAttribute
                      /\ CandidateMods[i][2] # <<>>
                      /\ \A j \in 1..Len(CandidateMods[i][2]) :
                             CandidateMods[i][2][j] \notin {"zai", "cong", "gei", "dui"}
               \/ \E i \in 1..Len(CandidateMods) :
                      /\ CandidateMods[i][1] = KeyLocation
                      /\ Len(CandidateMods[i][2]) < 2
        /\ CandidateMods = << <<KeyAttribute, <<"gao", "da", "de">> >> >> =>
               ~checked.argument_integrity_check.valid
        /\ CandidateMods = << <<KeyLocation, <<"zai", "yuan3", "fang", "de", "shan", "shang">> >> >> =>
               checked.argument_integrity_check.valid

\* An 'attribute' that holds a cue stands: the check ran on it and passed.
C18_Witness ==
    /\ Checked
    /\ IsMapping(CandidateMods)
    /\ \E i \in 1..Len(CandidateMods) :
           /\ CandidateMods[i][1] = KeyAttribute
           /\ \E j \in 1..Len(CandidateMods[i][2]) : CandidateMods[i][2][j] = "zai"
    /\ checked.argument_integrity_check.valid

\* C19: for every role of the vocabulary, when one of its trigger keywords is in the
\* sentence and the role is not a key of mods, the semantic-completeness sub-result
\* is invalid.
C19_ExpectedRolesFlagged ==
    (Checked /\ ~IsRaised(checked.completeness_check)) =>
        \A role \in ExpectedModifiers(v_sentence) :
            ~HasKey(RoleKey[role]) => ~checked.completeness_check.valid

\* C20: on a mapping mods the recoverability sub-result is invalid exactly when the
\* predicate is absent or is not a substring of the sentence, or mods is empty while the
\* sentence contains '在', '每' or '很'.
C20_RecoverabilityRule ==
    (Checked /\ IsMapping(CandidateMods)) =>
        /\ ~IsRaised(checked.recoverability_check)
        /\ ~checked.recoverability_check.valid <=>
               \/ Absent("predicate")
               \/ ~Contains(v_sentence, Get(parsed, "predicate", <<>>))
               \/ /\ CandidateMods = <<>>
                  /\ \E i \in 1..Len(v_sentence) : v_sentence[i] \in {"zai", "mei", "hen"}

\* The predicate is in the sentence and only the cue rule speaks: mods is empty, the
\* sentence holds a cue, the sub-result is invalid.
C20_Witness ==
    /\ Checked
    /\ CandidateMods = <<>>
    /\ ~Absent("predicate")
    /\ Contains(v_sentence, parsed.predicate)
    /\ \E i \in 1..Len(v_sentence) : v_sentence[i] \in {"zai", "mei", "hen"}
    /\ ~IsRaised(checked.recoverability_check)
    /\ ~checked.recoverability_check.valid

\* ------------------------------------------------------------------ the feedback text

\* The labelled group of a list of issues: none when the list is empty.
Group(label, issues) == IF issues = <<>> THEN <<>> ELSE <<FeedbackPart(label, issues)>>

\* The groups of the returned outcome in the order structural, argument-integrity,
\* semantic-completeness, recoverability, judge (missing info, then suggestions).
FeedbackGroups ==
    Group("structure: ", validated.structure_check.issues)
    \o Group("argument_integrity: ", validated.argument_integrity_check.issues)
    \o Group("completeness: ", validated.completeness_check.issues)
    \o Group("recoverability: ", validated.recoverability_check.issues)
    \o Group("missing_info: ", Get(validated.model_feedback, "missing_info", <<>>))
    \o Group("suggestions: ", Get(validated.model_feedback, "suggestions", <<>>))

\* C21 as stated: the feedback of a valid outcome is the accepted message; that of an
\* invalid one is the '; '-joined groups in the fixed order, never the accepted message
\* and never empty.
C21_FeedbackIsJoinedGroups ==
    Validated =>
        IF validated.is_valid THEN validated.feedback = <<"accepted">>
        ELSE /\ validated.feedback = Join(<<"; ">>, FeedbackGroups)
             /\ validated.feedback # <<"accepted">>
             /\ validated.feedback # <<>>

\* C21 amended: the feedback of a valid outcome is the accepted message; that of an
\* invalid one is the '; '-joined groups in the fixed order when there is a group, and
\* the fixed needs-improvement message when there is none; it is never the accepted
\* message and never empty.
C21_FeedbackGroupsOrFallback ==
    Validated =>
        IF validated.is_valid THEN validated.feedback = <<"accepted">>
        ELSE /\ validated.feedback = IF FeedbackGroups # <<>>
                                     THEN Join(<<"; ">>, FeedbackGroups)
                                     ELSE <<"needs_improvement">>
             /\ validated.feedback # <<"accepted">>
             /\ validated.feedback # <<>>

\* An invalid outcome with a structural and a recoverability group, and one more.
C21_Witness ==
    /\ Validated
    /\ ~validated.is_valid
    /\ validated.structure_check.issues # <<>>
    /\ validated.recoverability_check.issues # <<>>
    /\ Len(FeedbackGroups) >= 3
    /\ validated.feedback = Join(<<"; ">>, FeedbackGroups)

\* ------------------------------------------------------------------ the revision call

\* The last call of the current run was a revision.
JustRevised == events # <<>> /\ events[Len(events)] \in {"revise", "revise_raise"}

\* The entry recorded by the validation that sent the run to that revision.
JudgedEntry == interaction_history[Len(interaction_history)]

\* The triplet parsed on an attempt, out of what the extractor returned for it.
RECURSIVE ParsedOf(_)
ParsedOf(attempt) ==
    IF "predicate" \in DOMAIN attempt \/ "triplet" \notin DOMAIN attempt THEN attempt
    ELSE ParsedOf(attempt.triplet)

\* C22: every revision call is made with the sentence, with the triplet of the previous
\* attempt, so that the prompt shows the serialization of the triplet parsed on that
\* attempt, and with the feedback of the outcome that was just judged invalid.
C22_RevisionInputs ==
    JustRevised =>
        /\ ~JudgedEntry.validation.is_valid
        /\ revision_prompt.sentence = Sentence
        /\ revision_prompt.feedback = JudgedEntry.validation.feedback
        /\ revision_prompt.triplet_str = FormatTriplet(ParsedOf(JudgedEntry.triplet))

\* ------------------------------------------------------------------ the order of a batch's results

\* The results of the futures k..n one after the other.
RECURSIVE ResultsFrom(_)
ResultsFrom(k) ==
    IF k > Len(futures) THEN <<>> ELSE futures[k].result \o ResultsFrom(k + 1)

\* C23: BatchProcessor.process_batch returns the results in the order of the input,
\* the results of batch i before those of batch j whenever i < j, whatever the order
\* in which the worker threads complete.
C23_ResultsInInputOrder ==
    batch_pc = "Returned" =>
        /\ batch_results = ResultsFrom(1)
        /\ batch_results = ProcessFunc(data_list)

\* ------------------------------------------------------------------ the round trip of a scenario text

\* C24: parsing '{time="每天早上", location="在公园"} 跑步(小明, null)' yields the mods time
\* '每天早上' and location '在公园' in that order, the predicate '跑步', the subject '小明'
\* and no object, and formatting that triplet gives the input string back.
C24_MorningRunRoundTrip ==
    (text = TextMorningRun /\ parsed # NoTriplet) =>
        /\ parsed.mods = << <<KeyTime, <<"mei", "tian", "zao", "shang">> >>,
                            <<KeyLocation, <<"zai", "gong", "yuan">> >> >>
        /\ parsed.predicate = <<"pao", "bu">>
        /\ parsed.subject = <<"xiao", "ming">>
        /\ parsed.object = NoneVal
        /\ formatted # NoneVal => formatted = text

\* The text was parsed and the triplet formatted.
C24_Witness ==
    /\ text = TextMorningRun
    /\ parsed # NoTriplet
    /\ formatted # NoneVal
    /\ Len(formatted) = Len(TextMorningRun)

\* ------------------------------------------------------------------ earlier attempts are kept as they were

\* The step is a return of revise_triplet to process_sentence.
RevisionReturns == pc = "Revise" /\ pc' = "LoopHead"

\* C25: revise_triplet leaves the triplet it is given unchanged and returns a newly
\* constructed one, and no step changes an entry already recorded in the interaction
\* history.
C25_RevisionIsFresh ==
    [][/\ Len(interaction_history') >= Len(interaction_history)
       /\ SubSeq(interaction_history', 1, Len(interaction_history)) = interaction_history
       /\ RevisionReturns =>
              /\ interaction_history'[Len(interaction_history')].triplet = current_triplet
              /\ current_triplet' # current_triplet
              /\ current_triplet'.triplet # current_triplet
              /\ "predicate" \in DOMAIN current_triplet'.triplet]_vars

\* ------------------------------------------------------------------ the cache

\* The last call made on the CacheManager.
LastCall == cache_calls[Len(cache_calls)]

\* The keys of a cache's entries.
KeysOf(entries) == {entries[i][1] : i \in 1..Len(entries)}

\* The value the most recent set gave to a key among the first n calls, None when the
\* key was evicted or the cache cleared after it, or when there was no such set.
RECURSIVE LastWritten(_, _)
LastWritten(key, n) ==
    IF n = 0 THEN NoneVal
    ELSE LET call == cache_calls[n]
         IN  IF call.op = "clear" THEN NoneVal
             ELSE IF call.op = "set" /\ ~call.raised /\ call.key = key THEN call.value
             ELSE IF key \in KeysOf(call.before) \ KeysOf(call.after) THEN NoneVal
             ELSE LastWritten(key, n - 1)

\* C26: get(k) returns the value of the most recent set(k, v) when k was not evicted
\* and the cache not cleared since, None for a key that is not cached, and get leaves
\* the cached contents as they were.
C26_GetReturnsLastSet ==
    (cache_calls # <<>> /\ LastCall.op = "get") =>
        /\ LastCall.value = LastWritten(LastCall.key, Len(cache_calls) - 1)
        /\ LastCall.key \notin KeysOf(LastCall.before) => LastCall.value = NoneVal
        /\ LastCall.after = LastCall.before
        /\ cache = LastCall.before

\* A get of a key that was set twice, with two values, returned the second.
C26_Witness ==
    /\ cache_calls # <<>>
    /\ LastCall.op = "get"
    /\ LastCall.value # NoneVal
    /\ \E i \in 1..Len(cache_calls) : \E j \in (i + 1)..Len(cache_calls) :
           /\ cache_calls[i].op = "set" /\ cache_calls[i].key = LastCall.key
           /\ cache_calls[j].op = "set" /\ cache_calls[j].key = LastCall.key
           /\ cache_calls[i].value # cache_calls[j].value
           /\ cache_calls[j].value = LastCall.value

\* C30: with max_size >= 0 every set returns without raising and leaves at most
\* max_size entries; on a full cache it deletes the earliest-inserted entry and no other.
C30_SetKeepsWithinMaxSize ==
    (cache_calls # <<>> /\ LastCall.op = "set") =>
        /\ ~LastCall.raised
        /\ Len(LastCall.after) <= max_size
        /\ KeysOf(LastCall.before) \ KeysOf(LastCall.after) \subseteq
               (IF Len(LastCall.before) >= max_size /\ LastCall.before # <<>>
                THEN {LastCall.before[1][1]} ELSE {})
        /\ (Len(LastCall.before) >= max_size /\ LastCall.before # <<>>
            /\ LastCall.before[1][1] # LastCall.key) =>
               LastCall.before[1][1] \notin KeysOf(LastCall.after)

\* ------------------------------------------------------------------ the order of the calls

\* The last call of the current run.
LastEvent == events[Len(events)]

\* C27: in a run the validator is called on what the most recent extractor call
\* returned, a revision is called only right after a validation that returned invalid,
\* and two extractor calls never follow each other without a validation between them.
C27_StepsAlternate ==
    /\ events # <<>> => events[1] \in {"extract", "extract_raise"}
    /\ \A i \in 1..Len(events) :
           /\ events[i] \in {"revise", "revise_raise"} =>
                  i > 1 /\ events[i - 1] = "validate_invalid"
           /\ (events[i] \in ExtractorEvents /\ i < Len(events)) =>
                  events[i + 1] \in ValidatorEvents
    /\ (events # <<>> /\ LastEvent \in {"extract", "revise"}) =>
           /\ current_triplet.triplet = extraction_history[Len(extraction_history)].triplet
           /\ extraction_history[Len(extraction_history)].sentence = Sentence
    /\ (events # <<>> /\ validator = "AgentB"
        /\ LastEvent \in {"validate_valid", "validate_invalid"}) =>
           /\ validation_result.triplet = current_triplet
           /\ validation_result.sentence = Sentence
    /\ (events # <<>> /\ validator = "AgentB" /\ LastEvent \in {"final_valid", "final_invalid"}) =>
           /\ LastResult.final_validation.triplet = current_triplet
           /\ LastResult.final_triplet = current_triplet

\* A run with two extractor calls, a validation between them and one after.
C27_Witness ==
    /\ validator = "AgentB"
    /\ Len(events) >= 4
    /\ events[1] = "extract"
    /\ events[2] = "validate_invalid"
    /\ events[3] = "revise"
    /\ events[4] = "validate_invalid"
    /\ validation_result.triplet = current_triplet

\* ------------------------------------------------------------------ the history a run returns

\* The validations of the current run that were recorded in the interaction history.
RecordedInRun == Count(events, {"validate_valid", "validate_invalid"})

\* C28: the interaction history a run returns holds only entries recorded during that
\* run, each with the run's sentence and the iteration numbers 1..k in order, and its
\* length is the 'iterations' of the same result, whatever was processed before on the
\* same system.
C28_ReturnedHistoryIsOwn ==
    (RunReturned /\ "interaction_history" \in DOMAIN LastResult) =>
        LET returned == LastResult.interaction_history
        IN  /\ Len(returned) = LastResult.iterations
            /\ Len(returned) = RecordedInRun
            /\ returned = SubSeq(interaction_history,
                                 Len(interaction_history) - RecordedInRun + 1,
                                 Len(interaction_history))
            /\ \A j \in 1..Len(returned) :
                   /\ returned[j].sentence = Sentence
                   /\ returned[j].iteration = j

\* The second run on a system returned two entries and left out the first run's.
C28_Witness ==
    /\ RunReturned
    /\ idx = 2
    /\ "interaction_history" \in DOMAIN LastResult
    /\ Len(LastResult.interaction_history) = 2
    /\ Len(interaction_history) > 2

\* ------------------------------------------------------------------ one validation per triplet

\* C29: in a run that returned, on the accepted and on the exhausted path alike, the
\* validator was called once per extracted triplet: the validate_triplet calls are as
\* many as the extractor calls that returned a triplet, and AgentB's validation history
\* and the performance tracker hold one record per call.
C29_OneValidationPerTriplet ==
    /\ validator = "AgentB" => Len(validation_history) = Len(tracker_results)
    /\ (RunReturned /\ (IsAccepted(LastResult) \/ IsExhausted(LastResult))) =>
           Count(events, {"validate_valid", "validate_invalid", "final_valid", "final_invalid"})
               = Count(events, {"extract", "revise"})

====
